---- MODULE Spec2Model ----
(***************************************************************************)
(* Smart-parking server: device state store (parkingData), slot history    *)
(* log (slotHistory), the report handler POST /api/parking-status, the     *)
(* status read GET /api/parking-status and the dashboard                   *)
(* GET /api/admin/dashboard (of server.js, and of part_001 behind the      *)
(* admin login).                                                           *)
(*                                                                         *)
(* The four server variants (server.js, part_000 x2, part_001, part_002)   *)
(* share the report handler and logSlotChange line for line; they differ   *)
(* in the history cap (10000 / 5000) and in the analytics and auth code.   *)
(* Node runs every handler to completion on one thread, so one handler is  *)
(* one action.  Snapshot fields that no operation reads back for a         *)
(* decision (timestamp, wifiStatus, lastUpdate, ipAddress) are left out.   *)
(* A handler reads the clock once: the calls of new Date() inside one      *)
(* synchronous handler are taken at the same millisecond.                  *)
(***************************************************************************)
EXTENDS Integers, Sequences, FiniteSets, TLC

VARIABLES
    parkingData,   \* Map deviceId -> snapshot {slots, availableSlots, totalSlots}
    slotHistory,   \* the capped array of log objects
    detected,      \* history variable: every log object ever pushed, in push order
    clock,         \* what new Date() returns
    last,          \* the last request handled and the status of its response
    response,      \* the body of that response
    zone,          \* the time zone of the host, which getHours() reads
    adminUsers,    \* Map identifier -> user {password, role} of the auth variants
    pending,       \* registrations suspended at `await bcrypt.hash`
    issued,        \* history variable: the tokens that login has signed
    presented,     \* history variable: the credentials of the last auth request
    variant        \* which of the programs with admin login is running

vars == <<parkingData, slotHistory, detected, clock, last, response, zone,
          adminUsers, pending, issued, presented, variant>>

(* ------------------------------ bounds --------------------------------- *)
\* The history cap of the source (10000 or 5000), scaled down.
HistoryCap == 2
\* Largest explicit slot id of an object-form report (0 = id absent or 0).
MaxSlotId == 1
\* Largest integer of a simple-array report.
MaxIntVal == 2
\* Spec and SpecDevices accept reports while fewer than MaxEvents transitions
\* were detected.
MaxEvents == 3
\* SpecLog accepts reports while fewer than HistoryCap + ExtraEvents
\* transitions were detected.
ExtraEvents == 2
MaxLogEvents == HistoryCap + ExtraEvents
\* The clock stops advancing at MaxClock.
MaxClock == 1
\* The length of the recent-changes list of the dashboard (50 in the source)
\* and of the dashboard with admin login (20 in the source): like those,
\* at most the cap of the log, and the second one below it.
RecentLimit == 2
AuthRecentLimit == 1
\* The number of registrations that may be suspended at the same time.
MaxPending == 2
\* The number of tokens that login issues.
MaxTokens == 1

\* Device ids of accepted reports, and the empty (or absent) device id.
DeviceIds == {"D1", "D2"}
NoDeviceId == ""

\* duration: null
NULL == -1

(* ------------------------------ inputs --------------------------------- *)
\* Arrays of at most two elements of S.
ShortSeqs(S) == {<<>>} \cup {<<a>> : a \in S} \cup {<<a, b>> : a \in S, b \in S}

\* A slot object of an object-form report: {id?, occupied}.
SlotObjects == [id : 0..MaxSlotId, occupied : BOOLEAN]

\* req.body.slots: absent (or not an array), an array of slot objects, or an
\* array of integers.  form records what typeof slots[0] decides.
AbsentSlots == [form |-> "absent", items |-> <<>>]
ObjectSlots == {[form |-> "objects", items |-> s] : s \in ShortSeqs(SlotObjects)}
IntSlots == {[form |-> "ints", items |-> s] : s \in (ShortSeqs(0..MaxIntVal) \ {<<>>}) \cup {<<0, 1, 0>>}}
SlotInputs == {AbsentSlots} \cup ObjectSlots \cup IntSlots
\* The slot arrays sent without a device id.
RejectedInputs == {AbsentSlots, [form |-> "ints", items |-> <<1>>]}
\* Simple arrays over 0 and 1 only, and the absent array.
LogInputs == {AbsentSlots} \cup {[form |-> "ints", items |-> s] : s \in ShortSeqs({0, 1}) \ {<<>>}}
\* A few of them, for the specifications that read between the reports.
FewInputs == {AbsentSlots} \cup {[form |-> "ints", items |-> s] : s \in {<<0>>, <<1>>}}
\* A null element of the slots array.
NullSlot == [id |-> NULL, occupied |-> FALSE]

\* Object-form reports of one slot, and object-form reports with a null
\* element, alone, behind or before a slot object.
OneObjectInputs == {[form |-> "objects", items |-> <<a>>] : a \in SlotObjects}
NullInputs ==
    {[form |-> "objects", items |-> s] :
        s \in {<<NullSlot>>} \cup {<<a, NullSlot>> : a \in SlotObjects}
                            \cup {<<NullSlot, a>> : a \in SlotObjects}}
\* The reports of a second device with one slot.
OneSlotInputs == {[form |-> "ints", items |-> s] : s \in {<<0>>, <<1>>}}

(* --------------------------- logSlotChange ----------------------------- *)
\* Mutant of FindLastOccupied: the .reverse() is missing, the oldest matching
\* entry is found.
FindFirstOccupied(h, deviceId, slotId) ==
    LET hits == {i \in 1..Len(h) : /\ h[i].deviceId = deviceId
                                   /\ h[i].slotId = slotId
                                   /\ h[i].newState = TRUE}
    IN  IF hits = {} THEN 0 ELSE CHOOSE i \in hits : \A j \in hits : i <= j

\* Mutant of FindLastOccupied: the h.deviceId === deviceId test is missing,
\* the most recent occupation of that slot id on any device is found.
FindLastOccupiedAnyDevice(h, deviceId, slotId) ==
    LET hits == {i \in 1..Len(h) : /\ h[i].slotId = slotId
                                   /\ h[i].newState = TRUE}
    IN  IF hits = {} THEN 0 ELSE CHOOSE i \in hits : \A j \in hits : j <= i

\* slotHistory.slice().reverse().find(...): the index of the most recent
\* entry of (deviceId, slotId) with newState === true, 0 when there is none.
FindLastOccupied(h, deviceId, slotId) ==
    LET hits == {i \in 1..Len(h) : /\ h[i].deviceId = deviceId
                                   /\ h[i].slotId = slotId
                                   /\ h[i].newState = TRUE}
    IN  IF hits = {} THEN 0 ELSE CHOOSE i \in hits : \A j \in hits : j <= i

\* The log object built by logSlotChange, duration included.
MakeLog(h, deviceId, slotId, previousState, newState, now) ==
    LET lastOccupied == FindLastOccupied(h, deviceId, slotId)
    IN  [deviceId |-> deviceId,
         slotId |-> slotId,
         previousState |-> previousState,
         newState |-> newState,
         timestamp |-> now,
         duration |-> IF previousState = TRUE /\ newState = FALSE /\ lastOccupied # 0
                      THEN now - h[lastOccupied].timestamp
                      ELSE NULL]

\* Mutant of Evict: the length check is missing, nothing is ever removed.
EvictNothing(h) == h

\* Mutant of Evict: pop() instead of shift(), the newest entry is removed.
EvictNewest(h) == IF Len(h) > HistoryCap THEN SubSeq(h, 1, Len(h) - 1) ELSE h

\* if (slotHistory.length > cap) slotHistory.shift();
Evict(h) == IF Len(h) > HistoryCap THEN Tail(h) ELSE h

\* Mutant of logSlotChange: unshift() instead of push(), the new log is put
\* in front of the older ones.
logSlotChangeUnshift(st, deviceId, slotId, previousState, newState, now) ==
    LET log == MakeLog(st.hist, deviceId, slotId, previousState, newState, now)
    IN  [hist |-> Evict(<<log>> \o st.hist), det |-> Append(st.det, log)]

\* st = [hist, det]: the history log and the sequence of every log pushed.
logSlotChange(st, deviceId, slotId, previousState, newState, now) ==
    LET log == MakeLog(st.hist, deviceId, slotId, previousState, newState, now)
    IN  [hist |-> Evict(Append(st.hist, log)), det |-> Append(st.det, log)]

(* ------------------------ POST /api/parking-status --------------------- *)
\* Object form: id: slot.id || index + 1, occupied: slot.occupied.
ObjSlotData(slot, index) ==
    [id |-> IF slot.id # 0 THEN slot.id ELSE index, occupied |-> slot.occupied]

\* Mutant of IntSlotData: id: index, the 0-based position.
IntSlotDataZeroBased(value, index) ==
    [id |-> index - 1, occupied |-> (value = 1)]

\* Simple-array form: id: index + 1, occupied: occupied === 1.
IntSlotData(value, index) ==
    [id |-> index, occupied |-> (value = 1)]

\* slots.filter((slot) => !slot.occupied).length
ObjAvailable(items) == Cardinality({i \in 1..Len(items) : ~items[i].occupied})

\* slots.filter((slot) => slot === 0).length
IntAvailable(items) == Cardinality({i \in 1..Len(items) : items[i] = 0})

\* Mutant of PreviousSlots: an unknown device is diffed against a default
\* snapshot of free slots instead of the empty list.
PreviousSlotsDefault(deviceId) ==
    IF deviceId \in DOMAIN parkingData THEN parkingData[deviceId].slots
    ELSE <<[id |-> 1, occupied |-> FALSE], [id |-> 2, occupied |-> FALSE]>>

\* previousData ? previousData.slots : []
PreviousSlots(deviceId) ==
    IF deviceId \in DOMAIN parkingData THEN parkingData[deviceId].slots ELSE <<>>

\* previousSlots.find((p) => p.id === slotData.id): index of the first slot
\* with that id, 0 when undefined.
FindPrevious(previousSlots, id) ==
    LET hits == {i \in 1..Len(previousSlots) : previousSlots[i].id = id}
    IN  IF hits = {} THEN 0 ELSE CHOOSE i \in hits : \A j \in hits : i <= j

\* Mutant of StateChanged: previousState and the new value are not compared.
StateChangedAlways(previousSlots, slotData) ==
    FindPrevious(previousSlots, slotData.id) # 0

\* previousSlot && previousSlot.occupied !== slotData.occupied
StateChanged(previousSlots, slotData) ==
    LET p == FindPrevious(previousSlots, slotData.id)
    IN  p # 0 /\ previousSlots[p].occupied # slotData.occupied

\* The slots.map callback run over the array from index i on: logs every
\* changed slot in array order; st threads the history log through.
RECURSIVE MapSlots(_, _, _, _, _, _)
MapSlots(st, deviceId, slotDatas, previousSlots, i, now) ==
    IF i > Len(slotDatas) THEN st
    ELSE LET slotData == slotDatas[i]
             p == FindPrevious(previousSlots, slotData.id)
             st2 == IF StateChanged(previousSlots, slotData)
                    THEN logSlotChange(st, deviceId, slotData.id,
                                       previousSlots[p].occupied, slotData.occupied, now)
                    ELSE st
         IN  MapSlots(st2, deviceId, slotDatas, previousSlots, i + 1, now)

\* processedSlots of a report.
ProcessedSlots(slots) ==
    IF slots.form = "objects"
    THEN [i \in 1..Len(slots.items) |-> ObjSlotData(slots.items[i], i)]
    ELSE IF slots.form = "ints"
    THEN [i \in 1..Len(slots.items) |-> IntSlotData(slots.items[i], i)]
    ELSE <<>>

\* availableSlots of a report.
AvailableSlots(slots) ==
    IF slots.form = "objects" THEN ObjAvailable(slots.items)
    ELSE IF slots.form = "ints" THEN IntAvailable(slots.items)
    ELSE 0

\* totalSlots of a report: slots.length when slots is an array.
TotalSlots(slots) == Len(slots.items)

\* The object stored by parkingData.set.
Snapshot(slots) ==
    [slots |-> ProcessedSlots(slots),
     availableSlots |-> AvailableSlots(slots),
     totalSlots |-> TotalSlots(slots)]

\* Mutant of MapSet: the new value is merged into the old one, slots of the
\* old snapshot whose id the new one lacks are kept.
MapSetMerge(m, key, value) ==
    [k \in DOMAIN m \cup {key} |->
        IF k # key THEN m[k]
        ELSE IF key \notin DOMAIN m THEN value
        ELSE [value EXCEPT !.slots =
                 value.slots \o SelectSeq(m[key].slots,
                     LAMBDA p : \A i \in 1..Len(value.slots) : value.slots[i].id # p.id)]]

\* parkingData.set(deviceId, snapshot)
MapSet(m, key, value) ==
    [k \in DOMAIN m \cup {key} |-> IF k = key THEN value ELSE m[k]]

Request(op, deviceId, slots, status) ==
    [op |-> op, deviceId |-> deviceId, slots |-> slots, status |-> status]

\* res.status(400).json({error: "Device ID is required"})
DeviceIdRequired == [error |-> "Device ID is required"]

\* res.json({success: true, data: {deviceId, availableSlots, totalSlots}})
ReportAccepted(deviceId, slots) ==
    [success |-> TRUE,
     data |-> [deviceId |-> deviceId,
               availableSlots |-> AvailableSlots(slots),
               totalSlots |-> TotalSlots(slots)]]

\* The position of the first null element of the array, 0 when it has none.
FirstNull(items) ==
    LET hits == {i \in 1..Len(items) : items[i] = NullSlot}
    IN  IF hits = {} THEN 0 ELSE CHOOSE i \in hits : \A j \in hits : i <= j

\* typeof null === "object": slots[0].hasOwnProperty("occupied") on a null
\* first element, or !slot.occupied on a null element in slots.filter, throws
\* a TypeError, before slots.map has run.
ReportThrows(slots) == slots.form = "objects" /\ FirstNull(slots.items) # 0

\* The error middleware: res.status(500).json({success: false, error:
\* "Internal server error", message}), outside development.
InternalServerError ==
    [success |-> FALSE, error |-> "Internal server error", message |-> "Something went wrong"]

\* Mutant of PostParkingStatus: the available slots are counted after the
\* map, so a null element behind the first one throws inside slots.map (at
\* slot.id), when the changes of the slots before it have been logged.
PostParkingStatusMapFirst(deviceId, slots) ==
    IF deviceId = NoDeviceId
    THEN /\ last' = Request("report", deviceId, slots, 400)
         /\ response' = DeviceIdRequired
         /\ UNCHANGED <<parkingData, slotHistory, detected, clock, zone,
                        adminUsers, pending, issued, presented, variant>>
    ELSE IF ReportThrows(slots)
    THEN LET before == [form |-> "objects",
                        items |-> SubSeq(slots.items, 1, FirstNull(slots.items) - 1)]
             st == MapSlots([hist |-> slotHistory, det |-> detected], deviceId,
                            ProcessedSlots(before), PreviousSlots(deviceId), 1, clock)
         IN  /\ slotHistory' = st.hist
             /\ detected' = st.det
             /\ last' = Request("report", deviceId, slots, 500)
             /\ response' = InternalServerError
             /\ UNCHANGED <<parkingData, clock, zone,
                            adminUsers, pending, issued, presented, variant>>
    ELSE LET st == MapSlots([hist |-> slotHistory, det |-> detected], deviceId,
                            ProcessedSlots(slots), PreviousSlots(deviceId), 1, clock)
         IN  /\ slotHistory' = st.hist
             /\ detected' = st.det
             /\ parkingData' = MapSet(parkingData, deviceId, Snapshot(slots))
             /\ last' = Request("report", deviceId, slots, 200)
             /\ response' = ReportAccepted(deviceId, slots)
             /\ UNCHANGED <<clock, zone,
                            adminUsers, pending, issued, presented, variant>>

\* Mutant of PostParkingStatus: a report without a slots array is rejected
\* with 400 and nothing is written.
PostParkingStatusRequireSlots(deviceId, slots) ==
    IF deviceId = NoDeviceId \/ slots.form = "absent"
    THEN /\ last' = Request("report", deviceId, slots, 400)
         /\ response' = DeviceIdRequired
         /\ UNCHANGED <<parkingData, slotHistory, detected, clock, zone,
                        adminUsers, pending, issued, presented, variant>>
    ELSE LET st == MapSlots([hist |-> slotHistory, det |-> detected], deviceId,
                            ProcessedSlots(slots), PreviousSlots(deviceId), 1, clock)
         IN  /\ slotHistory' = st.hist
             /\ detected' = st.det
             /\ parkingData' = MapSet(parkingData, deviceId, Snapshot(slots))
             /\ last' = Request("report", deviceId, slots, 200)
             /\ response' = ReportAccepted(deviceId, slots)
             /\ UNCHANGED <<clock, zone,
                            adminUsers, pending, issued, presented, variant>>

\* Mutant of PostParkingStatus: the deviceId check is missing.
PostParkingStatusNoCheck(deviceId, slots) ==
    LET st == MapSlots([hist |-> slotHistory, det |-> detected], deviceId,
                       ProcessedSlots(slots), PreviousSlots(deviceId), 1, clock)
    IN  /\ slotHistory' = st.hist
        /\ detected' = st.det
        /\ parkingData' = MapSet(parkingData, deviceId, Snapshot(slots))
        /\ last' = Request("report", deviceId, slots, 200)
        /\ response' = ReportAccepted(deviceId, slots)
        /\ UNCHANGED <<clock, zone,
                       adminUsers, pending, issued, presented, variant>>

\* Mutant of PostParkingStatus: the handler answers after logging the
\* changes and leaves the write of the snapshot to a later turn.
PostParkingStatusLogFirst(deviceId, slots) ==
    IF deviceId = NoDeviceId
    THEN /\ last' = Request("report", deviceId, slots, 400)
         /\ response' = DeviceIdRequired
         /\ UNCHANGED <<parkingData, slotHistory, detected, clock, zone,
                        adminUsers, pending, issued, presented, variant>>
    ELSE LET st == MapSlots([hist |-> slotHistory, det |-> detected], deviceId,
                            ProcessedSlots(slots), PreviousSlots(deviceId), 1, clock)
         IN  /\ slotHistory' = st.hist
             /\ detected' = st.det
             /\ parkingData' = IF deviceId \in DOMAIN parkingData
                               THEN parkingData
                               ELSE MapSet(parkingData, deviceId, Snapshot(slots))
             /\ last' = Request("report", deviceId, slots, 200)
             /\ response' = ReportAccepted(deviceId, slots)
             /\ UNCHANGED <<clock, zone,
                            adminUsers, pending, issued, presented, variant>>

\* app.post("/api/parking-status"): the handler runs to completion without
\* yielding (it awaits nothing), so the diff, the appends with their
\* evictions and the write of the snapshot are one step.
PostParkingStatus(deviceId, slots) ==
    IF deviceId = NoDeviceId
    THEN /\ last' = Request("report", deviceId, slots, 400)
         /\ response' = DeviceIdRequired
         /\ UNCHANGED <<parkingData, slotHistory, detected, clock, zone,
                        adminUsers, pending, issued, presented, variant>>
    ELSE IF ReportThrows(slots)
    THEN /\ last' = Request("report", deviceId, slots, 500)
         /\ response' = InternalServerError
         /\ UNCHANGED <<parkingData, slotHistory, detected, clock, zone,
                        adminUsers, pending, issued, presented, variant>>
    ELSE LET st == MapSlots([hist |-> slotHistory, det |-> detected], deviceId,
                            ProcessedSlots(slots), PreviousSlots(deviceId), 1, clock)
         IN  /\ slotHistory' = st.hist
             /\ detected' = st.det
             /\ parkingData' = MapSet(parkingData, deviceId, Snapshot(slots))
             /\ last' = Request("report", deviceId, slots, 200)
             /\ response' = ReportAccepted(deviceId, slots)
             /\ UNCHANGED <<clock, zone,
                            adminUsers, pending, issued, presented, variant>>

\* res.status(404).json({success: false, error: "Device not found", deviceId})
DeviceNotFound(deviceId) ==
    [success |-> FALSE, error |-> "Device not found", deviceId |-> deviceId]

\* Mutant of GetParkingStatus: the parkingData.has(deviceId) test is
\* missing, and an unknown device is answered with an empty snapshot.
GetParkingStatusNoHas(deviceId) ==
    /\ deviceId # NoDeviceId
    /\ last' = Request("status", deviceId, AbsentSlots, 200)
    /\ response' = [success |-> TRUE,
                    data |-> IF deviceId \in DOMAIN parkingData
                             THEN parkingData[deviceId]
                             ELSE [slots |-> <<>>, availableSlots |-> 0, totalSlots |-> 0]]
    /\ UNCHANGED <<parkingData, slotHistory, detected, clock, zone,
                   adminUsers, pending, issued, presented, variant>>

\* app.get("/api/parking-status"): the snapshot of one device, or of all
\* devices when the query names none.  Array.from(parkingData.values())
\* lists the snapshots in insertion order; the model keeps them by device.
GetParkingStatus(deviceId) ==
    /\ IF deviceId # NoDeviceId
       THEN IF deviceId \in DOMAIN parkingData
            THEN /\ last' = Request("status", deviceId, AbsentSlots, 200)
                 /\ response' = [success |-> TRUE, data |-> parkingData[deviceId]]
            ELSE /\ last' = Request("status", deviceId, AbsentSlots, 404)
                 /\ response' = DeviceNotFound(deviceId)
       ELSE /\ last' = Request("status", deviceId, AbsentSlots, 200)
            /\ response' = [success |-> TRUE,
                            data |-> parkingData,
                            totalDevices |-> Cardinality(DOMAIN parkingData)]
    /\ UNCHANGED <<parkingData, slotHistory, detected, clock, zone,
                   adminUsers, pending, issued, presented, variant>>

(* ------------------------- /api/admin/dashboard ------------------------ *)
\* Milliseconds of an hour, and of the two windows of the dashboard.
HourMs == 60 * 60 * 1000
Last24HoursMs == 24 * 60 * 60 * 1000
Last7DaysMs == 7 * 24 * 60 * 60 * 1000

\* Math.round(a / b) for a >= 0 and b > 0: halves round up.
Round(a, b) == (a \div b) + (IF 2 * (a % b) >= b THEN 1 ELSE 0)

\* A log.duration that passes the test `log.duration ? ... : ...`: neither
\* null nor 0.
Truthy(duration) == duration # NULL /\ duration # 0

\* Mutant of OccupiedSlots: the operands are swapped.
OccupiedSlotsSwapped(data) == data.availableSlots - data.totalSlots

\* data.totalSlots - data.availableSlots
OccupiedSlots(data) == data.totalSlots - data.availableSlots

\* total > 0 ? ((occupied / total) * 100).toFixed(1) : 0.  toFixed(1) yields
\* a decimal string with one digit after the point; the model keeps the
\* number of tenths of a percent it denotes.
OccupancyRate(occupied, total) ==
    IF total > 0 THEN Round(occupied * 1000, total) ELSE 0

\* currentStatus: one entry for each stored device.
CurrentStatus ==
    [d \in DOMAIN parkingData |->
        [deviceId |-> d,
         totalSlots |-> parkingData[d].totalSlots,
         availableSlots |-> parkingData[d].availableSlots,
         occupiedSlots |-> OccupiedSlots(parkingData[d]),
         occupancyRate |-> OccupancyRate(OccupiedSlots(parkingData[d]),
                                         parkingData[d].totalSlots),
         slots |-> parkingData[d].slots]]

\* The first slot of a list with the given id: later slots with the same id
\* do not replace the entry that `if (!slotUsageStats[..][slot.id])` made.
FirstWithId(slotList, id) ==
    slotList[CHOOSE i \in 1..Len(slotList) :
                 /\ slotList[i].id = id
                 /\ \A j \in 1..(i - 1) : slotList[j].id # id]

\* slotUsageStats after its initialisation from currentStatus.
InitialSlotStats ==
    [d \in DOMAIN parkingData |->
        [id \in {parkingData[d].slots[i].id : i \in 1..Len(parkingData[d].slots)} |->
            [slotId |-> id,
             totalOccupations |-> 0,
             totalDuration |-> 0,
             averageDuration |-> 0,
             currentlyOccupied |-> FirstWithId(parkingData[d].slots, id).occupied,
             last24hOccupations |-> 0,
             last7dOccupations |-> 0]]]

\* Mutant of AnalyzeLog: every change counts as an occupation.
AnalyzeLogAnyChange(slotStats, log, now) ==
    [slotStats EXCEPT
        !.totalOccupations = @ + 1,
        !.last24hOccupations = IF log.timestamp >= now - Last24HoursMs THEN @ + 1 ELSE @,
        !.last7dOccupations = IF log.timestamp >= now - Last7DaysMs THEN @ + 1 ELSE @,
        !.totalDuration = IF log.newState = FALSE /\ Truthy(log.duration)
                          THEN @ + log.duration ELSE @]

\* What one log entry adds to the stats of its slot.
AnalyzeLog(slotStats, log, now) ==
    LET counted ==
            IF log.newState = TRUE
            THEN [slotStats EXCEPT
                     !.totalOccupations = @ + 1,
                     !.last24hOccupations =
                         IF log.timestamp >= now - Last24HoursMs THEN @ + 1 ELSE @,
                     !.last7dOccupations =
                         IF log.timestamp >= now - Last7DaysMs THEN @ + 1 ELSE @]
            ELSE slotStats
    IN  IF log.newState = FALSE /\ Truthy(log.duration)
        THEN [counted EXCEPT !.totalDuration = @ + log.duration]
        ELSE counted

\* slotHistory.forEach from entry i on: entries of a device or slot without
\* stats are skipped.
RECURSIVE AnalyzeHistory(_, _, _)
AnalyzeHistory(stats, i, now) ==
    IF i > Len(slotHistory) THEN stats
    ELSE LET log == slotHistory[i]
         IN  IF log.deviceId \notin DOMAIN stats
             THEN AnalyzeHistory(stats, i + 1, now)
             ELSE IF log.slotId \notin DOMAIN stats[log.deviceId]
             THEN AnalyzeHistory(stats, i + 1, now)
             ELSE AnalyzeHistory(
                      [stats EXCEPT ![log.deviceId][log.slotId] = AnalyzeLog(@, log, now)],
                      i + 1, now)

\* slotUsageStats, average durations included.
SlotUsageStats(now) ==
    LET stats == AnalyzeHistory(InitialSlotStats, 1, now)
    IN  [d \in DOMAIN stats |->
            [id \in DOMAIN stats[d] |->
                IF stats[d][id].totalOccupations > 0
                THEN [stats[d][id] EXCEPT
                         !.averageDuration =
                             Round(stats[d][id].totalDuration, stats[d][id].totalOccupations)]
                ELSE stats[d][id]]]

\* array.reverse()
Reverse(s) == [i \in 1..Len(s) |-> s[Len(s) + 1 - i]]

\* log.duration ? Math.round(log.duration / 1000 / 60) : null
DurationMinutes(log) ==
    IF Truthy(log.duration) THEN Round(log.duration, 1000 * 60) ELSE NULL

\* One entry of the recent-changes list.
RecentChange(log) ==
    [deviceId |-> log.deviceId,
     slotId |-> log.slotId,
     change |-> IF log.newState THEN "occupied" ELSE "available",
     previousState |-> IF log.previousState THEN "occupied" ELSE "available",
     timestamp |-> log.timestamp,
     duration |-> DurationMinutes(log)]

\* Mutant of RecentChanges: the .reverse() is missing.
RecentChangesOldestFirst(limit) ==
    LET first == IF Len(slotHistory) > limit THEN Len(slotHistory) - limit + 1 ELSE 1
        taken == SubSeq(slotHistory, first, Len(slotHistory))
    IN  [i \in 1..Len(taken) |-> RecentChange(taken[i])]

\* slotHistory.slice(-limit).reverse().map(...)
RecentChanges(limit) ==
    LET first == IF Len(slotHistory) > limit THEN Len(slotHistory) - limit + 1 ELSE 1
        newestFirst == Reverse(SubSeq(slotHistory, first, Len(slotHistory)))
    IN  [i \in 1..Len(newestFirst) |-> RecentChange(newestFirst[i])]

\* The zones a host may run in: the deployment's (UTC+7 all year), and one
\* that observes daylight-saving time.  Model time 0 is 2026-11-01T00:00Z;
\* America/New_York leaves daylight-saving time (UTC-4) for standard time
\* (UTC-5) six hours later.
Zones == {"Asia/Jakarta", "America/New_York"}
DstEnd == 6 * HourMs
UtcOffsetHours(z, t) ==
    IF z = "Asia/Jakarta" THEN 7
    ELSE IF t < DstEnd THEN -4 ELSE -5

\* new Date(t).getHours(): the hour of the day in the zone of the host.
GetHours(t) == ((t + UtcOffsetHours(zone, t) * HourMs) \div HourMs) % 24

\* The keys of hourlyPattern after the loop `for (let i = 0; i < 24; i++)`.
SeededHours(now) == {GetHours(now - i * HourMs) : i \in 0..23}

\* The log entries the hourly pattern counts.
Last24hLogs(now) == {i \in 1..Len(slotHistory) : slotHistory[i].timestamp >= now - Last24HoursMs}

\* hourlyPattern[hour] is undefined for an entry whose hour was not seeded:
\* `hourlyPattern[hour].occupations++` throws a TypeError.
HourlyPatternThrows(now) ==
    \E i \in Last24hLogs(now) : GetHours(slotHistory[i].timestamp) \notin SeededHours(now)

\* hourlyPattern, by hour (the response lists the buckets sorted by hour).
HourlyPattern(now) ==
    [hour \in SeededHours(now) |->
        [hour |-> hour,
         occupations |-> Cardinality({i \in Last24hLogs(now) :
                            /\ GetHours(slotHistory[i].timestamp) = hour
                            /\ slotHistory[i].newState = TRUE}),
         releases |-> Cardinality({i \in Last24hLogs(now) :
                            /\ GetHours(slotHistory[i].timestamp) = hour
                            /\ slotHistory[i].newState # TRUE})]]

\* array.reduce((sum, x) => sum + f[x], 0) over the elements S of the array.
RECURSIVE SumOf(_, _)
SumOf(f, S) ==
    IF S = {} THEN 0
    ELSE LET x == CHOOSE x \in S : TRUE
         IN  f[x] + SumOf(f, S \ {x})

\* Mutant of SystemStats: the windows exclude their lower bound (> for >=).
SystemStatsExclusive(now) ==
    LET devices == DOMAIN parkingData
        totalSlots == SumOf([d \in devices |-> CurrentStatus[d].totalSlots], devices)
        totalOccupied == SumOf([d \in devices |-> CurrentStatus[d].occupiedSlots], devices)
    IN  [totalDevices |-> Cardinality(devices),
         totalSlots |-> totalSlots,
         totalOccupied |-> totalOccupied,
         totalAvailable |-> SumOf([d \in devices |-> CurrentStatus[d].availableSlots], devices),
         overallOccupancyRate |-> OccupancyRate(totalOccupied, totalSlots),
         totalHistoryRecords |-> Len(slotHistory),
         last24hChanges |-> Cardinality({i \in 1..Len(slotHistory) :
                                slotHistory[i].timestamp > now - Last24HoursMs}),
         last7dChanges |-> Cardinality({i \in 1..Len(slotHistory) :
                                slotHistory[i].timestamp > now - Last7DaysMs})]

\* systemStats
SystemStats(now) ==
    LET devices == DOMAIN parkingData
        totalSlots == SumOf([d \in devices |-> CurrentStatus[d].totalSlots], devices)
        totalOccupied == SumOf([d \in devices |-> CurrentStatus[d].occupiedSlots], devices)
    IN  [totalDevices |-> Cardinality(devices),
         totalSlots |-> totalSlots,
         totalOccupied |-> totalOccupied,
         totalAvailable |-> SumOf([d \in devices |-> CurrentStatus[d].availableSlots], devices),
         overallOccupancyRate |-> OccupancyRate(totalOccupied, totalSlots),
         totalHistoryRecords |-> Len(slotHistory),
         last24hChanges |-> Cardinality({i \in 1..Len(slotHistory) :
                                slotHistory[i].timestamp >= now - Last24HoursMs}),
         last7dChanges |-> Cardinality({i \in 1..Len(slotHistory) :
                                slotHistory[i].timestamp >= now - Last7DaysMs})]

\* systemStats of the variant with admin login: totalAvailable is computed
\* from the two other sums, and there is no 7-day count.
SystemStatsAuth(now) ==
    LET devices == DOMAIN parkingData
        totalSlots == SumOf([d \in devices |-> CurrentStatus[d].totalSlots], devices)
        totalOccupied == SumOf([d \in devices |-> CurrentStatus[d].occupiedSlots], devices)
    IN  [totalDevices |-> Cardinality(devices),
         totalSlots |-> totalSlots,
         totalOccupied |-> totalOccupied,
         totalAvailable |-> totalSlots - totalOccupied,
         overallOccupancyRate |-> OccupancyRate(totalOccupied, totalSlots),
         totalHistoryRecords |-> Len(slotHistory),
         last24hChanges |-> Cardinality({i \in 1..Len(slotHistory) :
                                slotHistory[i].timestamp >= now - Last24HoursMs})]

\* res.status(500).json({success: false, error: "Failed to fetch dashboard data"})
DashboardFailed == [success |-> FALSE, error |-> "Failed to fetch dashboard data"]

\* app.get("/api/admin/dashboard"): the clock is read once; an exception
\* anywhere in the handler is caught and answered 500.
GetAdminDashboard ==
    /\ IF HourlyPatternThrows(clock)
       THEN /\ last' = Request("dashboard", NoDeviceId, AbsentSlots, 500)
            /\ response' = DashboardFailed
       ELSE /\ last' = Request("dashboard", NoDeviceId, AbsentSlots, 200)
            /\ response' = [success |-> TRUE,
                            data |-> [systemStats |-> SystemStats(clock),
                                      currentStatus |-> CurrentStatus,
                                      slotUsageStats |-> SlotUsageStats(clock),
                                      recentChanges |-> RecentChanges(RecentLimit),
                                      hourlyPattern |-> HourlyPattern(clock)],
                            timestamp |-> clock]
    /\ UNCHANGED <<parkingData, slotHistory, detected, clock, zone,
                   adminUsers, pending, issued, presented, variant>>

\* The answer of the dashboard handler of part_001, which runs once
\* authenticateAdmin has called next(): a shorter recent list, no slot
\* stats, no hourly pattern.
AdminDashboardAnswer ==
    /\ last' = Request("dashboardAuth", NoDeviceId, AbsentSlots, 200)
    /\ response' = [success |-> TRUE,
                    data |-> [systemStats |-> SystemStatsAuth(clock),
                              currentStatus |-> CurrentStatus,
                              recentChanges |-> RecentChanges(AuthRecentLimit)],
                    timestamp |-> clock]

\* app.get("/api/admin/dashboard") of the variant with admin login, for a
\* logged-in admin.
GetAdminDashboardAuth ==
    /\ AdminDashboardAnswer
    /\ UNCHANGED <<parkingData, slotHistory, detected, clock, zone,
                   adminUsers, pending, issued, presented, variant>>

(* ------------- /api/admin/dashboard of part_000 (times in WIB) ---------- *)
\* Milliseconds of a day.
DayMs == 24 * 60 * 60 * 1000

\* convertToWIB: the instant 7 hours later.
convertToWIB(t) == t + 7 * 60 * 60 * 1000

\* date.getUTCHours()
GetUTCHours(t) == (t \div HourMs) % 24

\* The UTC civil date of an instant, as the number of days since the date of
\* model time 0 (2026-11-01).
UtcDate(t) == t \div DayMs

\* date.toLocaleDateString("id-ID", {timeZone: "Asia/Jakarta", ...}): the
\* civil date of the instant in Jakarta, which is 7 hours ahead of UTC.
ToLocaleDateJakarta(t) == UtcDate(t + 7 * HourMs)

\* formatWIBDate(date): the fields the dashboard reads.  The date is
\* converted to WIB first, and the converted instant is then formatted in
\* the zone Asia/Jakarta.
formatWIBDate(t) ==
    LET wibDate == convertToWIB(t)
    IN  [date |-> ToLocaleDateJakarta(wibDate),
         hour |-> GetUTCHours(wibDate),
         timestamp |-> wibDate]

\* The hours in the order in which the loop `for (let i = 0; i < 24; i++)`
\* seeds hourlyPattern: the WIB hour of now, then the hours before it.
SeedOrderWIB(now) == [i \in 1..24 |-> GetUTCHours(convertToWIB(now) - (i - 1) * HourMs)]

\* hourlyPattern of part_000: buckets by WIB hour; an entry whose hour has
\* no bucket is skipped by `if (hourlyPattern[wibHour])`.
HourlyPatternWIB(now) ==
    LET seeded == {SeedOrderWIB(now)[i] : i \in 1..24}
    IN  [hour \in seeded |->
            LET logs == {i \in Last24hLogs(now) :
                            GetUTCHours(convertToWIB(slotHistory[i].timestamp)) = hour}
                occupations == Cardinality({i \in logs : slotHistory[i].newState = TRUE})
                releases == Cardinality({i \in logs : slotHistory[i].newState # TRUE})
            IN  [hour |-> hour,
                 occupations |-> occupations,
                 releases |-> releases,
                 netChange |-> occupations - releases]]

\* The ascending sequence of the elements of a finite set of integers.
RECURSIVE Ascending(_)
Ascending(S) ==
    IF S = {} THEN <<>>
    ELSE LET least == CHOOSE x \in S : \A y \in S : x <= y
         IN  <<least>> \o Ascending(S \ {least})

\* Object.values(obj) of an object whose keys are integers: the values by
\* ascending key, whatever the order in which the keys were inserted.
ObjectValues(obj) == [i \in 1..Cardinality(DOMAIN obj) |-> obj[Ascending(DOMAIN obj)[i]]]

\* occupations + releases of a bucket.
TotalActivity(bucket) == bucket.occupations + bucket.releases

\* array.sort((a, b) => TotalActivity(b) - TotalActivity(a)) of the first n
\* elements: the sort is stable, an element stays behind the earlier
\* elements of the same activity.
RECURSIVE SortByActivity(_, _)
SortByActivity(buckets, n) ==
    IF n = 0 THEN <<>>
    ELSE LET sorted == SortByActivity(buckets, n - 1)
             b == buckets[n]
             k == Cardinality({j \in 1..Len(sorted) :
                                  TotalActivity(sorted[j]) >= TotalActivity(b)})
         IN  SubSeq(sorted, 1, k) \o <<b>> \o SubSeq(sorted, k + 1, Len(sorted))

\* The number of peak hours listed (`.slice(0, 5)`).
PeakHoursCount == 5

\* peakHours: the first buckets of Object.values(hourlyPattern) sorted by
\* activity.
PeakHours(pattern) ==
    LET sorted == SortByActivity(ObjectValues(pattern), Cardinality(DOMAIN pattern))
    IN  [i \in 1..PeakHoursCount |->
            [hour |-> sorted[i].hour,
             totalActivity |-> TotalActivity(sorted[i]),
             occupations |-> sorted[i].occupations,
             releases |-> sorted[i].releases]]

\* The log entries the daily pattern counts.
Last7dLogs(now) == {i \in 1..Len(slotHistory) : slotHistory[i].timestamp >= now - Last7DaysMs}

\* The key of the bucket seeded for i days ago: formatWIBDate of an instant
\* that was computed from nowWIB, which is already converted.
SeededDayKey(now, i) == formatWIBDate(convertToWIB(now) - i * DayMs).date

\* dailyPattern, by bucket key; an entry whose key has no bucket is skipped
\* by `if (dailyPattern[dayKey])`.
DailyPattern(now) ==
    [dayKey \in {SeededDayKey(now, i) : i \in 0..6} |->
        LET logs == {i \in Last7dLogs(now) :
                        formatWIBDate(slotHistory[i].timestamp).date = dayKey}
            occupations == Cardinality({i \in logs : slotHistory[i].newState = TRUE})
            releases == Cardinality({i \in logs : slotHistory[i].newState # TRUE})
        IN  [date |-> dayKey,
             occupations |-> occupations,
             releases |-> releases,
             netChange |-> occupations - releases,
             totalActivities |-> Cardinality(logs)]]

\* app.get("/api/admin/dashboard") of part_000 (the variant without login).
GetAdminDashboardWIB ==
    /\ last' = Request("dashboardWIB", NoDeviceId, AbsentSlots, 200)
    /\ response' = [success |-> TRUE,
                    data |-> [systemStats |-> SystemStats(clock),
                              currentStatus |-> CurrentStatus,
                              slotUsageStats |-> SlotUsageStats(clock),
                              recentChanges |-> RecentChanges(RecentLimit),
                              hourlyPattern |-> HourlyPatternWIB(clock),
                              dailyPattern |-> DailyPattern(clock),
                              peakHours |-> PeakHours(HourlyPatternWIB(clock))],
                    timestamp |-> clock]
    /\ UNCHANGED <<parkingData, slotHistory, detected, clock, zone,
                   adminUsers, pending, issued, presented, variant>>

(* ----------------- /api/admin/hourly-analytics, /api/health ------------- *)
\* The key of the bucket of an instant that was converted to WIB already:
\* its formatWIBDate date and its UTC hour (`${dateKey.date}_${wibHour}`).
HourKey(wibTime) == <<formatWIBDate(wibTime).date, GetUTCHours(wibTime)>>

\* The key under which a log entry is counted.
LogHourKey(log) ==
    <<formatWIBDate(log.timestamp).date, GetUTCHours(convertToWIB(log.timestamp))>>

\* hourlyBreakdown for the last hoursBack hours; an entry whose key has no
\* bucket is skipped by `if (hourlyBreakdown[hourKey])`.
HourlyBreakdown(now, hoursBack) ==
    LET seeded == {HourKey(convertToWIB(now) - i * HourMs) : i \in 0..(hoursBack - 1)}
        inRange == {i \in 1..Len(slotHistory) :
                       slotHistory[i].timestamp >= now - hoursBack * HourMs}
    IN  [key \in seeded |->
            LET logs == {i \in inRange : LogHourKey(slotHistory[i]) = key}
                occupations == Cardinality({i \in logs : slotHistory[i].newState = TRUE})
                releases == Cardinality({i \in logs : slotHistory[i].newState # TRUE})
            IN  [date |-> key[1],
                 hour |-> key[2],
                 occupations |-> occupations,
                 releases |-> releases,
                 netChange |-> occupations - releases,
                 totalActivity |-> Cardinality(logs)]]

\* The date strings that `new Date(`${date} ${hourFormatted}`)` orders as
\* the calendar does: "dd/mm/yyyy" is read as month/day/year, which keeps
\* the order of the days 01..12 of one month (days 0..11 of the model) and
\* gives an Invalid Date for the other days.
ParsedDays == 0..11

\* All buckets of the last hoursBack hours have such a date.
DatesParse(now, hoursBack) ==
    \A i \in 0..(hoursBack - 1) : HourKey(convertToWIB(now) - i * HourMs)[1] \in ParsedDays

\* The value that the comparator of hourlyData's sort subtracts, in hours.
ParsedHour(key) == key[1] * 24 + key[2]

\* The ascending sequence of the elements of P that lie in lo..hi (the
\* range is halved, which keeps the recursion shallow).
RECURSIVE AscendingIn(_, _, _)
AscendingIn(P, lo, hi) ==
    IF lo > hi THEN <<>>
    ELSE IF lo = hi THEN (IF lo \in P THEN <<lo>> ELSE <<>>)
    ELSE AscendingIn(P, lo, (lo + hi) \div 2) \o AscendingIn(P, (lo + hi) \div 2 + 1, hi)

\* The elements of a set of parsed hours in ascending order.
AscendingOf(P) ==
    IF P = {} THEN <<>>
    ELSE AscendingIn(P, CHOOSE lo \in P : \A p \in P : lo <= p,
                        CHOOSE hi \in P : \A p \in P : p <= hi)

\* The buckets in the order of their parsed hours.
InParsedOrder(breakdown, order) ==
    [i \in 1..Len(order) |-> breakdown[<<order[i] \div 24, order[i] % 24>>]] \o <<>>

\* hourlyData: Object.values(hourlyBreakdown) sorted by the parsed date and
\* hour of the buckets.
HourlyData(breakdown) ==
    InParsedOrder(breakdown, AscendingOf({ParsedHour(key) : key \in DOMAIN breakdown}))

\* The initial value null of the two reduce calls that look for an hour.
NoHour == [date |-> NULL, hour |-> NULL, occupations |-> 0, releases |-> 0,
           netChange |-> 0, totalActivity |-> NULL]

\* hour.totalActivity > (max?.totalActivity || 0) ? hour : max
BusierOf(max, hour) ==
    IF hour.totalActivity > (IF max = NoHour THEN 0 ELSE max.totalActivity)
    THEN hour ELSE max

\* busiestHour: the reduce over the buckets lo..hi of hourlyData, in the
\* order of the array, from the value max.  The range is halved and max is
\* looked at first, so that TLC has its value before it descends: this
\* keeps the evaluation shallow.
RECURSIVE BusiestHour(_, _, _, _)
BusiestHour(max, data, lo, hi) ==
    IF max = NoHour /\ lo > hi THEN NoHour
    ELSE IF lo > hi THEN max
    ELSE IF lo = hi THEN BusierOf(max, data[lo])
    ELSE BusiestHour(BusiestHour(max, data, lo, (lo + hi) \div 2),
                     data, (lo + hi) \div 2 + 1, hi)

\* hour.totalActivity < (min?.totalActivity || Infinity) ? hour : min
\* The bound is Infinity when min is null and when its totalActivity is 0,
\* which is falsy.
QuieterOf(min, hour) ==
    IF min = NoHour \/ min.totalActivity = 0 \/ hour.totalActivity < min.totalActivity
    THEN hour ELSE min

\* quietestHour: the reduce over the buckets lo..hi of hourlyData, in the
\* order of the array, from the value min.
RECURSIVE QuietestHour(_, _, _, _)
QuietestHour(min, data, lo, hi) ==
    IF min = NoHour /\ lo > hi THEN NoHour
    ELSE IF lo > hi THEN min
    ELSE IF lo = hi THEN QuieterOf(min, data[lo])
    ELSE QuietestHour(QuietestHour(min, data, lo, (lo + hi) \div 2),
                      data, (lo + hi) \div 2 + 1, hi)

\* The summary of a breakdown: the number of buckets asked for, the sums
\* of the buckets' counters and the two hours (the reduce calls over
\* hourlyData).
SummaryOf(breakdown, hourlyData, hoursBack) ==
    [totalHours |-> hoursBack,
     busiestHour |-> BusiestHour(NoHour, hourlyData, 1, Len(hourlyData)),
     quietestHour |-> QuietestHour(NoHour, hourlyData, 1, Len(hourlyData)),
     totalActivities |->
         SumOf([k \in DOMAIN breakdown |-> breakdown[k].totalActivity], DOMAIN breakdown),
     totalOccupations |->
         SumOf([k \in DOMAIN breakdown |-> breakdown[k].occupations], DOMAIN breakdown),
     totalReleases |->
         SumOf([k \in DOMAIN breakdown |-> breakdown[k].releases], DOMAIN breakdown)]

AnalyticsSummary(breakdown, hoursBack) ==
    SummaryOf(breakdown, HourlyData(breakdown), hoursBack)

\* The body of the answer of the hourly analytics.
AnalyticsData(breakdown, hoursBack) ==
    [hourlyBreakdown |-> breakdown, summary |-> AnalyticsSummary(breakdown, hoursBack)]

\* The values of the query parameter days that are requested.
DaysInputs == {1, 2}

\* app.get("/api/admin/hourly-analytics") with the query parameter days; the
\* route has no authentication middleware.  The breakdown is kept by key
\* (the response lists the buckets sorted by date and hour).  The request
\* is served at the instants at which the date of every bucket parses: at
\* the others the comparator of the sort is inconsistent and the order of
\* hourlyData is the engine's.
GetHourlyAnalytics(days) ==
    /\ DatesParse(clock, days * 24)
    /\ response' = [success |-> TRUE,
                    data |-> AnalyticsData(HourlyBreakdown(clock, days * 24), days * 24),
                    timestamp |-> clock]
    /\ last' = Request("analytics", NoDeviceId, AbsentSlots, 200)
    /\ UNCHANGED <<parkingData, slotHistory, detected, clock, zone,
                   adminUsers, pending, issued, presented, variant>>

\* Mutant of GetHealth: the handler drops the log after reporting its length.
GetHealthClearsLog ==
    /\ last' = Request("health", NoDeviceId, AbsentSlots, 200)
    /\ response' = [status |-> "OK",
                    timestamp |-> clock,
                    connectedDevices |-> Cardinality(DOMAIN parkingData),
                    totalHistoryLogs |-> Len(slotHistory)]
    /\ slotHistory' = <<>>
    /\ UNCHANGED <<parkingData, detected, clock, zone,
                   adminUsers, pending, issued, presented, variant>>

\* app.get("/api/health")
GetHealth ==
    /\ last' = Request("health", NoDeviceId, AbsentSlots, 200)
    /\ response' = [status |-> "OK",
                    timestamp |-> clock,
                    connectedDevices |-> Cardinality(DOMAIN parkingData),
                    totalHistoryLogs |-> Len(slotHistory)]
    /\ UNCHANGED <<parkingData, slotHistory, detected, clock, zone,
                   adminUsers, pending, issued, presented, variant>>

\* The instants at which the specification of that dashboard handles
\* requests: midnight, noon and 18:00 UTC of the first day, and noon of the
\* next day.
DayInstants == {0, 12 * HourMs, 18 * HourMs, DayMs + 12 * HourMs}

\* Time passes between requests, up to a later one of these instants.
AdvanceClockByDay ==
    /\ \E t \in DayInstants : t > clock /\ clock' = t
    /\ UNCHANGED <<parkingData, slotHistory, detected, last, response, zone,
                   adminUsers, pending, issued, presented, variant>>

\* The instants at which the dashboard specifications handle requests: the
\* start, 40 seconds later, and a day and a week after that.
Instants == {0, 40 * 1000, 40 * 1000 + Last24HoursMs, 40 * 1000 + Last7DaysMs}

\* Time passes between requests, up to a later instant.
AdvanceClock ==
    /\ \E t \in Instants : t > clock /\ clock' = t
    /\ UNCHANGED <<parkingData, slotHistory, detected, last, response, zone,
                   adminUsers, pending, issued, presented, variant>>

\* Time passes between requests.
Tick ==
    /\ clock < MaxClock
    /\ clock' = clock + 1
    /\ UNCHANGED <<parkingData, slotHistory, detected, last, response, zone,
                   adminUsers, pending, issued, presented, variant>>

(* ------------------- admin login (part_000, part_001) ------------------ *)
\* The two programs with admin login: the first half of part_000 keys its
\* users by email, part_001 by username.
AuthVariants == {"part_000", "part_001"}

\* bcrypt.hash(password, 10): a value that reveals its plaintext only to
\* bcrypt.compare.
Hash(password) == [bcrypt |-> password]

\* bcrypt.compare(password, hash)
Compare(password, hash) == hash.bcrypt = password

\* The identifier of the user that the program stores at start-up.
DefaultAdminId(v) == IF v = "part_000" THEN "admin@parking.com" ELSE "admin"

\* The password of that user: part_001 hashes "admin123" at start-up,
\* part_000 carries a hash and names "admin123" in its start-up message.
DefaultAdminPassword(v) == "admin123"

\* adminUsers after start-up.
DefaultUsers(v) ==
    [id \in {DefaultAdminId(v)} |->
        [password |-> Hash(DefaultAdminPassword(v)), role |-> "admin"]]

\* The identifiers and passwords of the requests ("" is a missing field).
Identifiers(v) == {"", DefaultAdminId(v), "ops"}
Passwords(v) == {"", "12345", DefaultAdminPassword(v)}

\* A request without an Authorization header.
NoToken == [sub |-> "", role |-> "", exp |-> 0, signed |-> FALSE]

\* The credentials of a request: its bearer token, or the identifier and
\* the password of its body.
Credentials(token, identifier, password) ==
    [token |-> token, identifier |-> identifier, password |-> password]

\* expiresIn: "24h", in seconds.
TokenLifetime == 24 * 60 * 60

\* jwt.sign(claims, JWT_SECRET, {expiresIn: "24h"}): iat is the present
\* second.  Only the server knows JWT_SECRET (the environment sets it), so
\* signed is TRUE for the tokens of jwt.sign alone.
Sign(identifier, role, now) ==
    [sub |-> identifier, role |-> role, exp |-> (now \div 1000) + TokenLifetime, signed |-> TRUE]

\* A token that somebody else made up for the default admin.
ForgedToken(v) ==
    [sub |-> DefaultAdminId(v), role |-> "admin", exp |-> 30 * TokenLifetime, signed |-> FALSE]

\* jwt.verify(token, JWT_SECRET) succeeds: the signature is the server's
\* and the present second is before exp.
Verifies(token, now) == token.signed /\ (now \div 1000) < token.exp

\* The tokens that a dashboard request may carry.
TokenInputs == {NoToken, ForgedToken(variant)} \cup issued

\* The error bodies of the login, the registration and the middlewares.
AuthError(message) == [success |-> FALSE, error |-> message]

\* Mutant of Login: a login of an unknown identifier is answered 404.
LoginUserNotFound(identifier, password) ==
    /\ presented' = Credentials(NoToken, identifier, password)
    /\ IF identifier = "" \/ password = ""
       THEN /\ last' = Request("login", NoDeviceId, AbsentSlots, 400)
            /\ response' = AuthError(IF variant = "part_000" THEN "Email and password are required"
                                 ELSE "Username and password are required")
            /\ UNCHANGED issued
       ELSE IF identifier \notin DOMAIN adminUsers
       THEN /\ last' = Request("login", NoDeviceId, AbsentSlots, 404)
            /\ response' = AuthError("User not found")
            /\ UNCHANGED issued
       ELSE IF ~Compare(password, adminUsers[identifier].password)
       THEN /\ last' = Request("login", NoDeviceId, AbsentSlots, 401)
            /\ response' = AuthError("Invalid credentials")
            /\ UNCHANGED issued
       ELSE LET token == Sign(identifier, adminUsers[identifier].role, clock)
            IN  /\ Cardinality(issued) < MaxTokens
                /\ last' = Request("login", NoDeviceId, AbsentSlots, 200)
                /\ response' = [success |-> TRUE,
                                message |-> "Login successful",
                                data |-> [token |-> token,
                                          user |-> [identifier |-> identifier,
                                                    role |-> adminUsers[identifier].role]]]
                /\ issued' = issued \cup {token}
    /\ UNCHANGED <<parkingData, slotHistory, detected, clock, zone,
                   adminUsers, pending, variant>>

\* app.post("/api/auth/login") of both programs.  The user is looked up
\* before `await bcrypt.compare` and nothing is read from the store after
\* it, so the handler is one step.
Login(identifier, password) ==
    /\ presented' = Credentials(NoToken, identifier, password)
    /\ IF identifier = "" \/ password = ""
       THEN /\ last' = Request("login", NoDeviceId, AbsentSlots, 400)
            /\ response' = AuthError(IF variant = "part_000" THEN "Email and password are required"
                                 ELSE "Username and password are required")
            /\ UNCHANGED issued
       ELSE IF identifier \notin DOMAIN adminUsers
       THEN /\ last' = Request("login", NoDeviceId, AbsentSlots, 401)
            /\ response' = AuthError("Invalid credentials")
            /\ UNCHANGED issued
       ELSE IF ~Compare(password, adminUsers[identifier].password)
       THEN /\ last' = Request("login", NoDeviceId, AbsentSlots, 401)
            /\ response' = AuthError("Invalid credentials")
            /\ UNCHANGED issued
       ELSE LET token == Sign(identifier, adminUsers[identifier].role, clock)
            IN  /\ Cardinality(issued) < MaxTokens
                /\ last' = Request("login", NoDeviceId, AbsentSlots, 200)
                /\ response' = [success |-> TRUE,
                                message |-> "Login successful",
                                data |-> [token |-> token,
                                          user |-> [identifier |-> identifier,
                                                    role |-> adminUsers[identifier].role]]]
                /\ issued' = issued \cup {token}
    /\ UNCHANGED <<parkingData, slotHistory, detected, clock, zone,
                   adminUsers, pending, variant>>

\* The shortest password that the registration of part_000 accepts.
MinPasswordLength == 6

\* The registration answers 400 before it hashes: a field is missing (the
\* requests of the model carry the third field, the name or the email), the
\* identifier is taken or, in part_000 only, the password is too short
\* (part_001 has no test of the length).
RegistrationError(identifier, password) ==
    IF identifier = "" \/ password = ""
    THEN IF variant = "part_000" THEN "Email, password, and name are required"
         ELSE "Username, password, and email are required"
    ELSE IF identifier \in DOMAIN adminUsers
    THEN IF variant = "part_000" THEN "User already exists" ELSE "Username already exists"
    ELSE IF variant = "part_000" /\ Len(password) < MinPasswordLength
    THEN "Password must be at least 6 characters"
    ELSE ""

\* app.post("/api/auth/register") up to `await bcrypt.hash`: the request is
\* answered 400, or it is suspended while the password is hashed.
RegisterBegin(identifier, password) ==
    /\ IF RegistrationError(identifier, password) # ""
       THEN /\ last' = Request("register", NoDeviceId, AbsentSlots, 400)
            /\ response' = AuthError(RegistrationError(identifier, password))
            /\ presented' = Credentials(NoToken, identifier, password)
            /\ UNCHANGED pending
       ELSE /\ Cardinality(pending) < MaxPending
            /\ pending' = pending \cup {[identifier |-> identifier, password |-> password]}
            /\ UNCHANGED <<last, response, presented>>
    /\ UNCHANGED <<parkingData, slotHistory, detected, clock, zone,
                   adminUsers, issued, variant>>

\* The rest of the registration, after the hash is there:
\* adminUsers.set(identifier, newUser) and the answer.
RegisterFinish(registration) ==
    /\ registration \in pending
    /\ pending' = pending \ {registration}
    /\ adminUsers' = MapSet(adminUsers, registration.identifier,
                            [password |-> Hash(registration.password), role |-> "admin"])
    /\ last' = Request("register", NoDeviceId, AbsentSlots, 200)
    /\ response' = [success |-> TRUE,
                    data |-> [identifier |-> registration.identifier, role |-> "admin"]]
    /\ presented' = Credentials(NoToken, registration.identifier, registration.password)
    /\ UNCHANGED <<parkingData, slotHistory, detected, clock, zone, issued, variant>>

\* authenticateToken of part_000: "" when it calls next(), else the error.
\* A missing token is answered 401, a token that does not verify 403.
authenticateToken(token) ==
    IF token = NoToken THEN [status |-> 401, error |-> "Access token required"]
    ELSE IF ~Verifies(token, clock) THEN [status |-> 403, error |-> "Invalid or expired token"]
    ELSE [status |-> 200, error |-> ""]

\* authenticateAdmin of part_001: every refusal is answered 401; a token
\* that verifies must also name a stored user with the role admin.
authenticateAdmin(token) ==
    IF token = NoToken THEN [status |-> 401, error |-> "Access denied. No token provided."]
    ELSE IF ~Verifies(token, clock) THEN [status |-> 401, error |-> "Invalid token."]
    ELSE IF token.sub \notin DOMAIN adminUsers \/ adminUsers[token.sub].role # "admin"
    THEN [status |-> 401, error |-> "Access denied. Invalid token."]
    ELSE [status |-> 200, error |-> ""]

\* hourlyActivity of the dashboard of part_000 with login: the entries of
\* the last 24 hours by their WIB hour.
HourlyActivity(now) ==
    [hour \in 0..23 |->
        [hour |-> hour,
         activities |-> Cardinality({i \in Last24hLogs(now) :
                            GetUTCHours(convertToWIB(slotHistory[i].timestamp)) = hour})]]

\* Object.values(hourlyActivity).sort((a, b) => b.activities - a.activities)
\* of the first n hours (a stable sort).
RECURSIVE SortByActivities(_, _)
SortByActivities(buckets, n) ==
    IF n = 0 THEN <<>>
    ELSE LET sorted == SortByActivities(buckets, n - 1)
             b == buckets[n]
             k == Cardinality({j \in 1..Len(sorted) : sorted[j].activities >= b.activities})
         IN  SubSeq(sorted, 1, k) \o <<b>> \o SubSeq(sorted, k + 1, Len(sorted))

\* The number of peak hours of that dashboard (`.slice(0, 3)`).
TopHoursCount == 3

\* summary of the dashboard of part_000 with login.
Summary(now) ==
    LET devices == DOMAIN parkingData
        totalSlots == SumOf([d \in devices |-> CurrentStatus[d].totalSlots], devices)
        totalOccupied == SumOf([d \in devices |-> CurrentStatus[d].occupiedSlots], devices)
    IN  [totalDevices |-> Cardinality(devices),
         totalSlots |-> totalSlots,
         totalOccupied |-> totalOccupied,
         totalAvailable |-> SumOf([d \in devices |-> CurrentStatus[d].availableSlots], devices),
         overallOccupancyRate |-> OccupancyRate(totalOccupied, totalSlots),
         totalActivities |-> Len(slotHistory),
         last24hActivities |-> Cardinality(Last24hLogs(now))]

\* The answer of the dashboard handler of part_000 with login, which runs
\* once authenticateToken has called next() (popularSlots is not part of
\* the modelled answer).
TokenDashboardAnswer ==
    /\ last' = Request("dashboardAuth", NoDeviceId, AbsentSlots, 200)
    /\ response' = [success |-> TRUE,
                    data |-> [summary |-> Summary(clock),
                              currentStatus |-> CurrentStatus,
                              peakHours |-> SubSeq(SortByActivities(ObjectValues(HourlyActivity(clock)), 24),
                                                   1, TopHoursCount),
                              recentActivities |-> RecentChanges(AuthRecentLimit),
                              hourlyPattern |-> ObjectValues(HourlyActivity(clock))],
                    timestamp |-> clock]

\* Mutant of RequestAdminDashboard: the middleware calls next() when the
\* request has no token.
RequestAdminDashboardOpen(token) ==
    LET verdict == IF variant = "part_000" THEN authenticateToken(token)
                   ELSE authenticateAdmin(token)
    IN  /\ presented' = Credentials(token, "", "")
        /\ IF verdict.status = 200 \/ token = NoToken
           THEN IF variant = "part_000" THEN TokenDashboardAnswer ELSE AdminDashboardAnswer
           ELSE /\ last' = Request("dashboardAuth", NoDeviceId, AbsentSlots, verdict.status)
                /\ response' = AuthError(verdict.error)
        /\ UNCHANGED <<parkingData, slotHistory, detected, clock, zone,
                       adminUsers, pending, issued, variant>>

\* GET /api/admin/dashboard of the programs with login: the middleware,
\* then the handler, in one turn.
RequestAdminDashboard(token) ==
    LET verdict == IF variant = "part_000" THEN authenticateToken(token)
                   ELSE authenticateAdmin(token)
    IN  /\ presented' = Credentials(token, "", "")
        /\ IF verdict.status = 200
           THEN IF variant = "part_000" THEN TokenDashboardAnswer ELSE AdminDashboardAnswer
           ELSE /\ last' = Request("dashboardAuth", NoDeviceId, AbsentSlots, verdict.status)
                /\ response' = AuthError(verdict.error)
        /\ UNCHANGED <<parkingData, slotHistory, detected, clock, zone,
                       adminUsers, pending, issued, variant>>

\* No credentials have been presented.
NoCredentials == Credentials(NoToken, "", "")

\* The programs without login have no users and issue no tokens.
InitNoAuth ==
    /\ adminUsers = <<>>
    /\ pending = {}
    /\ issued = {}
    /\ presented = NoCredentials
    /\ variant = "server.js"

\* A program with login starts with its default admin, nothing stored or
\* logged, on a host in the deployment's zone.
InitAuth ==
    /\ parkingData = <<>>
    /\ slotHistory = <<>>
    /\ detected = <<>>
    /\ clock = 0
    /\ last = Request("none", NoDeviceId, AbsentSlots, 0)
    /\ response = [success |-> TRUE]
    /\ zone = "Asia/Jakarta"
    /\ variant \in AuthVariants
    /\ adminUsers = DefaultUsers(variant)
    /\ pending = {}
    /\ issued = {}
    /\ presented = NoCredentials

\* Nothing has been stored, logged or answered yet.
InitStore ==
    /\ parkingData = <<>>
    /\ slotHistory = <<>>
    /\ detected = <<>>
    /\ clock = 0
    /\ last = Request("none", NoDeviceId, AbsentSlots, 0)
    /\ response = [success |-> TRUE]

\* The server runs on a host in the deployment's zone (UTC+7, no DST).
Init ==
    /\ InitStore
    /\ InitNoAuth
    /\ zone = "Asia/Jakarta"

(* --------------------------- specifications ---------------------------- *)
\* Spec: one device sends reports of every form (and reports without a
\* device id are rejected); the clock stands still.
Next ==
    /\ Len(detected) < MaxEvents
    /\ \/ \E slots \in SlotInputs : PostParkingStatus("D1", slots)
       \/ \E slots \in RejectedInputs : PostParkingStatus(NoDeviceId, slots)

Spec == Init /\ [][Next]_vars

\* SpecLog: one device sends 0/1 arrays (or no array) while time passes,
\* until the log has overflowed its cap.
NextLog ==
    \/ /\ Len(detected) < MaxLogEvents
       /\ \E slots \in LogInputs : PostParkingStatus("D1", slots)
    \/ Tick

SpecLog == Init /\ [][NextLog]_vars

\* SpecDevices: two devices send 0/1 arrays (or no array); the clock stands
\* still.
NextDevices ==
    /\ Len(detected) < MaxEvents
    /\ \E deviceId \in DeviceIds, slots \in LogInputs : PostParkingStatus(deviceId, slots)

SpecDevices == Init /\ [][NextDevices]_vars

\* SpecStatus: two devices send a few 0/1 arrays (or no array), and the
\* status of a device, or of all devices, is read between the reports.
NextStatus ==
    \/ /\ Len(detected) < MaxEvents
       /\ \E deviceId \in DeviceIds, slots \in FewInputs : PostParkingStatus(deviceId, slots)
    \/ \E deviceId \in DeviceIds \cup {NoDeviceId} : GetParkingStatus(deviceId)

SpecStatus == Init /\ [][NextStatus]_vars

\* The server runs on a host in any of the zones.
InitHost ==
    /\ InitStore
    /\ InitNoAuth
    /\ zone \in Zones

\* SpecDashboard: one device sends a few 0/1 arrays (or no array), another
\* reports its one slot, while time passes, and the dashboard is read between the reports, on a host
\* in the deployment's zone.
NextDashboard ==
    \/ /\ Len(detected) < MaxEvents
       /\ \/ \E slots \in FewInputs : PostParkingStatus("D1", slots)
          \/ \E slots \in OneSlotInputs : PostParkingStatus("D2", slots)
    \/ GetAdminDashboard
    \/ AdvanceClock

SpecDashboard == Init /\ [][NextDashboard]_vars

\* SpecForms: one device sends reports of every form, another reports one
\* occupied slot, and the dashboards of both variants are read between the
\* reports; the clock stands still.
NextForms ==
    \/ /\ Len(detected) < MaxEvents
       /\ \/ \E slots \in SlotInputs : PostParkingStatus("D1", slots)
          \/ PostParkingStatus("D2", [form |-> "ints", items |-> <<1>>])
    \/ GetAdminDashboard
    \/ GetAdminDashboardAuth

SpecForms == Init /\ [][NextForms]_vars

\* SpecHost: one device sends a few 0/1 arrays (or no array) while time
\* passes, and the dashboard is read between the reports, on a host in any
\* of the zones.
NextHost ==
    \/ /\ Len(detected) < MaxEvents
       /\ \E slots \in FewInputs : PostParkingStatus("D1", slots)
    \/ GetAdminDashboard
    \/ AdvanceClock

SpecHost == InitHost /\ [][NextHost]_vars

\* SpecWIB: one device sends a few 0/1 arrays (or no array) while time
\* passes, and the dashboard of part_000 is read between the reports.
NextWIB ==
    \/ /\ Len(detected) < MaxEvents
       /\ \E slots \in FewInputs : PostParkingStatus("D1", slots)
    \/ GetAdminDashboardWIB
    \/ AdvanceClockByDay

SpecWIB == Init /\ [][NextWIB]_vars

\* SpecReads: one device sends a few 0/1 arrays (or no array) while time
\* passes, and every read operation is served between the reports, on a
\* host in any of the zones.
NextReads ==
    \/ /\ Len(detected) < MaxEvents
       /\ \E slots \in FewInputs : PostParkingStatus("D1", slots)
    \/ \E deviceId \in {"D1", NoDeviceId} : GetParkingStatus(deviceId)
    \/ GetHealth
    \/ GetAdminDashboard
    \/ \E days \in DaysInputs : GetHourlyAnalytics(days)
    \/ AdvanceClock

SpecReads == InitHost /\ [][NextReads]_vars

\* The instants of the specification with login: a token issued at the
\* first one is valid at the second and expired at the third.
AuthInstants == {0, TokenLifetime * 1000 - 1, TokenLifetime * 1000}

AdvanceClockAuth ==
    /\ \E t \in AuthInstants : t > clock /\ clock' = t
    /\ UNCHANGED <<parkingData, slotHistory, detected, last, response, zone,
                   adminUsers, pending, issued, presented, variant>>

\* SpecAuth: a program with admin login; users register and log in, one
\* device reports its slot once, time passes, and the dashboard is
\* requested without a token, with a made-up token and with every token
\* issued so far.
NextAuth ==
    \/ /\ parkingData = <<>>
       /\ \E slots \in OneSlotInputs : PostParkingStatus("D1", slots)
    \/ \E identifier \in Identifiers(variant), password \in Passwords(variant) :
           Login(identifier, password)
    \/ \E identifier \in Identifiers(variant), password \in Passwords(variant) :
           RegisterBegin(identifier, password)
    \/ \E registration \in pending : RegisterFinish(registration)
    \/ \E token \in TokenInputs : RequestAdminDashboard(token)
    \/ AdvanceClockAuth

SpecAuth == InitAuth /\ [][NextAuth]_vars

\* The instants of the specification of the hourly analytics: 07:00, 12:00
\* and 19:00 WIB of the first day and 19:00 WIB of the second.
AnalyticsInstants == {0, 5 * HourMs, 12 * HourMs, DayMs + 12 * HourMs}

AdvanceClockAnalytics ==
    /\ \E t \in AnalyticsInstants : t > clock /\ clock' = t
    /\ UNCHANGED <<parkingData, slotHistory, detected, last, response, zone,
                   adminUsers, pending, issued, presented, variant>>

\* The passwords of the registrations that overlap: too short for part_000,
\* of the minimum length, and longer.
RegisterPasswords == {"", "12345", "654321", "admin123"}

\* SpecRegister: a program with admin login; registrations are begun while
\* others are suspended in bcrypt.hash, they finish in any order, and users
\* log in between them.
NextRegister ==
    \/ \E identifier \in Identifiers(variant), password \in RegisterPasswords :
           RegisterBegin(identifier, password)
    \/ \E registration \in pending : RegisterFinish(registration)
    \/ \E password \in RegisterPasswords : Login("ops", password)

SpecRegister == InitAuth /\ [][NextRegister]_vars

\* SpecErrors: one device sends object-form reports of one slot, reports
\* with a null element and reports without a slots array, and reports
\* without a device id are rejected; the clock stands still.
NextErrors ==
    /\ Len(detected) < MaxEvents
    /\ \/ \E slots \in {AbsentSlots} \cup OneObjectInputs \cup NullInputs :
              PostParkingStatus("D1", slots)
       \/ \E slots \in RejectedInputs : PostParkingStatus(NoDeviceId, slots)

SpecErrors == Init /\ [][NextErrors]_vars

\* SpecAnalytics: the second program of part_000; one device sends a few
\* 0/1 arrays (or no array) at different times of the day, and the hourly
\* analytics of the last day or the last two days are read in between.
NextAnalytics ==
    \/ /\ Len(detected) < MaxEvents
       /\ \E slots \in FewInputs : PostParkingStatus("D1", slots)
    \/ \E days \in DaysInputs : GetHourlyAnalytics(days)
    \/ AdvanceClockAnalytics

SpecAnalytics == Init /\ [][NextAnalytics]_vars

(* ------------------------------ claims --------------------------------- *)
Min(a, b) == IF a < b THEN a ELSE b
Max(a, b) == IF a > b THEN a ELSE b

\* The last n elements of a sequence (all of it when it is shorter).
LastN(s, n) == SubSeq(s, Len(s) - Min(n, Len(s)) + 1, Len(s))

\* A step that handles a report: Tick moves the clock and leaves last alone.
ReportStep == last'.op = "report" /\ clock' = clock
AcceptedStep == ReportStep /\ last'.status = 200

\* Some report has pushed the log over its cap.
Overflowed == Len(detected) > HistoryCap

\* C1: after any sequence of reports the history log is never longer than
\* its cap.
HistoryWithinCap == Len(slotHistory) <= HistoryCap

\* C1 witness: more transitions than the cap were detected, the last report
\* carried two slots, and the log is full.
HistoryFullAfterOverflow ==
    /\ Overflowed
    /\ Len(slotHistory) = HistoryCap
    /\ last.op = "report" /\ Len(last.slots.items) = 2

\* C2: the history log is always the last min(n, cap) of the n transitions
\* detected so far, in detection order and unmodified; the sequence of
\* detected transitions itself only grows at its end.
HistoryIsLastDetected ==
    /\ [](slotHistory = LastN(detected, HistoryCap))
    /\ [][/\ Len(detected') >= Len(detected)
          /\ SubSeq(detected', 1, Len(detected)) = detected]_vars

\* C2 witness: the oldest detected transition was evicted and the log holds
\* the newer ones.
OldestEvicted ==
    /\ Overflowed
    /\ slotHistory # <<>>
    /\ slotHistory[1] # detected[1]

\* The events of (deviceId, slotId) in a log, as indexes.
PairIndexes(h, deviceId, slotId) ==
    {i \in 1..Len(h) : h[i].deviceId = deviceId /\ h[i].slotId = slotId}

\* C3: for every (deviceId, slotId) the events of that pair in the history
\* log alternate in newState: no two consecutive ones have the same newState.
HistoryAlternates ==
    \A i, j \in 1..Len(slotHistory) :
        (/\ i < j
         /\ slotHistory[i].deviceId = slotHistory[j].deviceId
         /\ slotHistory[i].slotId = slotHistory[j].slotId
         /\ \A k \in (i + 1)..(j - 1) :
               k \notin PairIndexes(slotHistory, slotHistory[i].deviceId, slotHistory[i].slotId))
        => slotHistory[i].newState # slotHistory[j].newState

\* C4: a report that carries the same ids and occupied values as the stored
\* snapshot of its device appends no event.
RepeatedReportAppendsNothing ==
    [][(/\ AcceptedStep
        /\ last'.deviceId \in DOMAIN parkingData
        /\ ProcessedSlots(last'.slots) = parkingData[last'.deviceId].slots)
       => (slotHistory' = slotHistory /\ detected' = detected)]_vars

\* The transitions a report must log: one per reported slot, in report order,
\* whose id the prior snapshot holds (the first slot with that id) with a
\* different occupied value.
RECURSIVE ExpectedTransitions(_, _, _)
ExpectedTransitions(prior, reported, i) ==
    IF i > Len(reported) THEN <<>>
    ELSE LET same == {j \in 1..Len(prior) : prior[j].id = reported[i].id}
             first == CHOOSE j \in same : \A k \in same : j <= k
             rest == ExpectedTransitions(prior, reported, i + 1)
         IN  IF same # {} /\ prior[first].occupied # reported[i].occupied
             THEN <<[slotId |-> reported[i].id,
                     previousState |-> prior[first].occupied,
                     newState |-> reported[i].occupied]>> \o rest
             ELSE rest

Transition(log) ==
    [slotId |-> log.slotId, previousState |-> log.previousState, newState |-> log.newState]

\* C5: a report to a device that has a snapshot appends exactly one event per
\* reported slot whose id is in the prior snapshot with a different occupied
\* value, in report order, with previousState the prior value and newState
\* the reported one; other slots append nothing.
ReportAppendsExactlyChanges ==
    [][(AcceptedStep /\ last'.deviceId \in DOMAIN parkingData)
       => LET d == last'.deviceId
              expected == ExpectedTransitions(parkingData[d].slots, parkingData'[d].slots, 1)
              n == Len(detected)
          IN  /\ Len(detected') = n + Len(expected)
              /\ SubSeq(detected', 1, n) = detected
              /\ \A k \in 1..Len(expected) :
                    /\ detected'[n + k].deviceId = d
                    /\ Transition(detected'[n + k]) = expected[k]
              /\ slotHistory' = LastN(slotHistory \o SubSeq(detected', n + 1, Len(detected')),
                                      HistoryCap)]_vars

\* C5 witness: the last report changed a slot of a known device, so its
\* event ends the log.
ReportLoggedChange ==
    /\ last.op = "report" /\ last.status = 200
    /\ slotHistory # <<>>
    /\ LET e == slotHistory[Len(slotHistory)]
       IN  /\ e.deviceId = last.deviceId
           /\ \E i \in 1..Len(parkingData[last.deviceId].slots) :
                 /\ parkingData[last.deviceId].slots[i].id = e.slotId
                 /\ parkingData[last.deviceId].slots[i].occupied = e.newState
                 /\ e.previousState # e.newState

\* The index in detected of the k-th entry of the history log.
DetectedIndex(k) == Len(detected) - Len(slotHistory) + k

\* The occupations of the pair of detected[j] that the log still held when
\* detected[j] was built: the log then was the last HistoryCap transitions
\* detected before it.
OccupationsInLogBefore(j) ==
    {i \in Max(1, j - HistoryCap)..(j - 1) :
        /\ detected[i].deviceId = detected[j].deviceId
        /\ detected[i].slotId = detected[j].slotId
        /\ detected[i].newState = TRUE}

\* C6: an event carries a duration only if it is a true-to-false event, and
\* the duration is its timestamp minus the timestamp of the most recent
\* earlier occupation of its pair that was in the log when it was appended;
\* a true-to-false event without such an occupation carries no duration.
DurationPairsLastOccupation ==
    \A k \in 1..Len(slotHistory) :
        LET j == DetectedIndex(k)
            e == slotHistory[k]
            occ == OccupationsInLogBefore(j)
            recent == CHOOSE i \in occ : \A m \in occ : m <= i
        IN  /\ j >= 1
            /\ e = detected[j]
            /\ (e.duration # NULL) =>
                  /\ e.previousState = TRUE /\ e.newState = FALSE
                  /\ occ # {}
                  /\ e.duration = e.timestamp - detected[recent].timestamp
            /\ (e.previousState = TRUE /\ e.newState = FALSE /\ occ = {}) =>
                  e.duration = NULL

\* C6 witness: the log holds a release with a positive duration, and a
\* release whose occupation was evicted and that carries no duration.
DurationsRecordedAndMissing ==
    /\ \E k \in 1..Len(slotHistory) : slotHistory[k].duration > 0
    /\ \E k \in 1..Len(slotHistory) :
          /\ slotHistory[k].previousState = TRUE
          /\ slotHistory[k].newState = FALSE
          /\ slotHistory[k].duration = NULL
          /\ \E i \in 1..(DetectedIndex(k) - 1) :
                /\ detected[i].slotId = slotHistory[k].slotId
                /\ detected[i].newState = TRUE

\* C7: the first accepted report of a device id appends no event; it only
\* records the snapshot.
FirstReportAppendsNothing ==
    [][(AcceptedStep /\ last'.deviceId \notin DOMAIN parkingData)
       => /\ slotHistory' = slotHistory
          /\ detected' = detected
          /\ DOMAIN parkingData' = DOMAIN parkingData \cup {last'.deviceId}]_vars

\* C7 witness: D2 reported occupied slots for the first time after D1 had
\* logged transitions; every event in the log is still one of D1.
FirstReportAfterEvents ==
    /\ DOMAIN parkingData = {"D1", "D2"}
    /\ slotHistory # <<>>
    /\ \A i \in 1..Len(detected) : detected[i].deviceId = "D1"
    /\ last.deviceId = "D2"
    /\ \E i \in 1..Len(parkingData["D2"].slots) : parkingData["D2"].slots[i].occupied

\* C8: every stored snapshot has availableSlots = the number of its slots
\* whose occupied is false, and totalSlots = the number of its slots.
SnapshotCountsMatchSlots ==
    \A d \in DOMAIN parkingData :
        LET snap == parkingData[d]
        IN  /\ snap.availableSlots =
                  Cardinality({i \in 1..Len(snap.slots) : snap.slots[i].occupied = FALSE})
            /\ snap.totalSlots = Len(snap.slots)

\* The last request was an accepted simple-array report; its snapshot is
\* the stored one of its device.
LastWasIntReport ==
    last.op = "report" /\ last.status = 200 /\ last.slots.form = "ints"

\* C9: in a simple-array report 0 means available and every other value
\* means occupied, and only the zeros count as available.
NonZeroStoredOccupied ==
    LastWasIntReport =>
        LET snap == parkingData[last.deviceId]
            items == last.slots.items
        IN  /\ Len(snap.slots) = Len(items)
            /\ \A i \in 1..Len(items) : snap.slots[i].occupied = (items[i] # 0)
            /\ snap.availableSlots = Cardinality({i \in 1..Len(items) : items[i] = 0})

\* C10: a simple array of length n over 0 and 1 is stored as n slots with
\* ids 1..n by position, slot i occupied exactly when the i-th value is 1,
\* and availableSlots the number of zeros.
ZeroOneArrayStoredByPosition ==
    (LastWasIntReport /\ \A i \in 1..Len(last.slots.items) : last.slots.items[i] \in {0, 1}) =>
        LET snap == parkingData[last.deviceId]
            items == last.slots.items
        IN  /\ Len(snap.slots) = Len(items)
            /\ snap.totalSlots = Len(items)
            /\ \A i \in 1..Len(items) :
                  /\ snap.slots[i].id = i
                  /\ snap.slots[i].occupied = (items[i] = 1)
            /\ snap.availableSlots = Cardinality({i \in 1..Len(items) : items[i] = 0})

\* C10 witness: the report [0, 1, 0] was stored: three slots, slot 2
\* occupied, two available.
ScenarioArrayStored ==
    /\ LastWasIntReport
    /\ last.slots.items = <<0, 1, 0>>
    /\ parkingData[last.deviceId].totalSlots = 3
    /\ parkingData[last.deviceId].availableSlots = 2
    /\ parkingData[last.deviceId].slots[2].occupied

\* The last request was an accepted report; its snapshot is the stored one
\* of its device.
LastWasAccepted == last.op = "report" /\ last.status = 200

\* The ids stored in a slot list.
SlotIdsOf(slotList) == {slotList[i].id : i \in 1..Len(slotList)}

\* C11: after an accepted report the stored slot list of the device holds
\* exactly the slots of that report, in report order (id given or 1-based
\* position, occupied as reported); no slot of an earlier report survives.
SnapshotIsLastReport ==
    LastWasAccepted =>
        LET stored == parkingData[last.deviceId].slots
            items == last.slots.items
        IN  /\ Len(stored) = Len(items)
            /\ last.slots.form = "objects" =>
                  \A i \in 1..Len(items) :
                      /\ stored[i].occupied = items[i].occupied
                      /\ stored[i].id = IF items[i].id # 0 THEN items[i].id ELSE i
            /\ last.slots.form = "ints" =>
                  \A i \in 1..Len(items) : stored[i].id = i

\* C11 witness: the log holds an event of a slot id of the device that its
\* last report, which carried slots, no longer names: the id is gone from
\* the snapshot.
StaleSlotDropped ==
    /\ LastWasAccepted
    /\ parkingData[last.deviceId].slots # <<>>
    /\ \E k \in 1..Len(slotHistory) :
          /\ slotHistory[k].deviceId = last.deviceId
          /\ slotHistory[k].slotId \notin SlotIdsOf(parkingData[last.deviceId].slots)

\* The snapshot of a report without a slot array.
EmptySnapshot == [slots |-> <<>>, availableSlots |-> 0, totalSlots |-> 0]

\* C12: a report with a deviceId and no slots array is accepted, appends no
\* event and writes the empty snapshot over any earlier one.
AbsentSlotsWriteEmptySnapshot ==
    [][(ReportStep /\ last'.deviceId # NoDeviceId /\ last'.slots.form = "absent")
       => /\ last'.status = 200
          /\ slotHistory' = slotHistory
          /\ detected' = detected
          /\ last'.deviceId \in DOMAIN parkingData'
          /\ parkingData'[last'.deviceId] = EmptySnapshot]_vars

\* C12 witness: a report without slots emptied the snapshot of a device
\* whose slots had logged transitions.
EmptySnapshotAfterEvents ==
    /\ LastWasAccepted
    /\ last.slots.form = "absent"
    /\ parkingData[last.deviceId] = EmptySnapshot
    /\ \E k \in 1..Len(slotHistory) : slotHistory[k].deviceId = last.deviceId

\* C13: a report without a deviceId is answered 400 and changes neither the
\* device store nor the history log.
MissingDeviceIdRejected ==
    [][(ReportStep /\ last'.deviceId = NoDeviceId)
       => /\ last'.status = 400
          /\ parkingData' = parkingData
          /\ slotHistory' = slotHistory
          /\ detected' = detected]_vars

\* C13 witness: a report carrying slots but no deviceId was rejected while
\* the store and the log held data.
RejectedWithData ==
    /\ last.op = "report" /\ last.status = 400 /\ last.deviceId = NoDeviceId
    /\ last.slots.items # <<>>
    /\ parkingData # <<>>
    /\ slotHistory # <<>>

\* C14: a status read for a device id is answered 404 "Device not found"
\* exactly when no report for that id has been accepted, and otherwise with
\* the snapshot the most recent accepted report of that id wrote: a read
\* answers from the stored snapshot, a device is stored by its first
\* accepted report, it is never removed, and only an accepted report of the
\* same id changes its snapshot.
LastWasStatusRead == last.op = "status" /\ last.deviceId # NoDeviceId

StatusReadAnswersFromStore ==
    LastWasStatusRead =>
        IF last.deviceId \in DOMAIN parkingData
        THEN /\ last.status = 200
             /\ response = [success |-> TRUE, data |-> parkingData[last.deviceId]]
        ELSE /\ last.status = 404
             /\ response.error = "Device not found"
             /\ response.deviceId = last.deviceId

StoreFollowsAcceptedReports ==
    /\ \A d \in DOMAIN parkingData : d \in DOMAIN parkingData'
    /\ \A d \in DOMAIN parkingData' :
          \/ d \in DOMAIN parkingData /\ parkingData'[d] = parkingData[d]
          \/ AcceptedStep /\ last'.deviceId = d
    /\ AcceptedStep =>
          /\ last'.deviceId \in DOMAIN parkingData'
          /\ parkingData'[last'.deviceId] = Snapshot(last'.slots)

StatusReadMatchesReports ==
    [] StatusReadAnswersFromStore /\ [][StoreFollowsAcceptedReports]_vars

\* A read of a never-reported device is answered 404 while the other device
\* is stored, and a read of a reported device is answered with its snapshot.
UnknownDeviceReadAmongKnown ==
    /\ LastWasStatusRead
    /\ last.status = 404
    /\ parkingData # <<>>
    /\ slotHistory # <<>>

\* The last request was a dashboard read (of either variant) that was
\* answered with data; no request has changed the state since.
LastWasDashboard == last.op \in {"dashboard", "dashboardAuth"} /\ last.status = 200

\* rate is occupied / total * 100 rounded to one decimal, in tenths of a
\* percent: within [0, 100], and 0 when total is 0.
IsRateOf(rate, occupied, total) ==
    /\ rate \in 0..1000
    /\ total = 0 => rate = 0
    /\ total > 0 => /\ 2 * (rate * total - occupied * 1000) <= total
                    /\ 2 * (occupied * 1000 - rate * total) <= total

\* C15: for every device the dashboard reports occupiedSlots = totalSlots -
\* availableSlots between 0 and totalSlots and an occupancyRate within
\* [0, 100] that is 0 when totalSlots = 0; the same holds for the overall
\* occupancy rate of the system summary.
OccupancyWithinRange ==
    LastWasDashboard =>
        LET data == response.data
        IN  /\ DOMAIN data.currentStatus = DOMAIN parkingData
            /\ \A d \in DOMAIN parkingData :
                  LET status == data.currentStatus[d]
                  IN  /\ status.totalSlots = parkingData[d].totalSlots
                      /\ status.occupiedSlots =
                             parkingData[d].totalSlots - parkingData[d].availableSlots
                      /\ status.occupiedSlots \in 0..status.totalSlots
                      /\ IsRateOf(status.occupancyRate, status.occupiedSlots, status.totalSlots)
            /\ data.systemStats.totalOccupied \in 0..data.systemStats.totalSlots
            /\ IsRateOf(data.systemStats.overallOccupancyRate,
                        data.systemStats.totalOccupied, data.systemStats.totalSlots)

\* The dashboard was read, after some change was logged, while one device
\* has no slots and the other is full.
DashboardWithEmptyDevice ==
    /\ LastWasDashboard
    /\ \E d \in DOMAIN parkingData : response.data.currentStatus[d].totalSlots = 0
    /\ response.data.systemStats.overallOccupancyRate = 1000
    /\ slotHistory # <<>>

\* The last request was a read of the dashboard of server.js that was
\* answered with data.
LastWasFullDashboard == last.op = "dashboard" /\ last.status = 200

\* A field of the stored snapshot of a device, 0 for a device not stored.
StoredTotal(d) == IF d \in DOMAIN parkingData THEN parkingData[d].totalSlots ELSE 0
StoredAvailable(d) == IF d \in DOMAIN parkingData THEN parkingData[d].availableSlots ELSE 0

\* The number of log entries that are not older than the window before now.
EntriesSince(now, window) ==
    Len(slotHistory)
    - Cardinality({i \in 1..Len(slotHistory) : slotHistory[i].timestamp + window < now})

\* C16: the system summary's totalSlots, totalOccupied and totalAvailable
\* are the sums over the stored snapshots of totalSlots, totalSlots -
\* availableSlots and availableSlots; its last-24h and last-7d counts are
\* the numbers of log entries with timestamp >= now - window; its record
\* count is the length of the log.
SummaryMatchesState ==
    LastWasFullDashboard =>
        LET stats == response.data.systemStats
            now == response.timestamp
        IN  /\ stats.totalSlots = StoredTotal("D1") + StoredTotal("D2")
            /\ stats.totalAvailable = StoredAvailable("D1") + StoredAvailable("D2")
            /\ stats.totalOccupied = (StoredTotal("D1") - StoredAvailable("D1"))
                                     + (StoredTotal("D2") - StoredAvailable("D2"))
            /\ stats.last24hChanges = EntriesSince(now, Last24HoursMs)
            /\ stats.last7dChanges = EntriesSince(now, Last7DaysMs)
            /\ stats.totalHistoryRecords = Len(slotHistory)

\* The dashboard was read with both devices stored, exactly 24 hours after
\* a logged change and more than 24 hours after an earlier one.
SummaryAtWindowBoundary ==
    /\ LastWasFullDashboard
    /\ DOMAIN parkingData = DeviceIds
    /\ \E i \in 1..Len(slotHistory) :
           slotHistory[i].timestamp = response.timestamp - Last24HoursMs
    /\ response.data.systemStats.last24hChanges = 1
    /\ response.data.systemStats.last7dChanges = 2

\* The log entries of one (deviceId, slotId) pair.
EventsOf(d, id) ==
    {i \in 1..Len(slotHistory) : slotHistory[i].deviceId = d /\ slotHistory[i].slotId = id}

RecentChangesAreLogTail ==
    LastWasDashboard =>
        LET list == response.data.recentChanges
            limit == IF last.op = "dashboard" THEN RecentLimit ELSE AuthRecentLimit
        IN  /\ Len(list) = Min(limit, Len(slotHistory))
            /\ \A k \in 1..Len(list) :
                  LET log == slotHistory[Len(slotHistory) + 1 - k]
                  IN  /\ list[k].deviceId = log.deviceId
                      /\ list[k].slotId = log.slotId
                      /\ list[k].timestamp = log.timestamp
                      /\ list[k].change = "occupied" <=> log.newState = TRUE

\* A dashboard was read whose limit is below the length of the log, and
\* the log ends with two entries that differ.
RecentChangesTruncated ==
    /\ LastWasDashboard
    /\ Len(response.data.recentChanges) < Len(slotHistory)
    /\ slotHistory[Len(slotHistory)] # slotHistory[Len(slotHistory) - 1]

\* C19: in the recent-changes list an entry's duration is null exactly
\* when the logged event recorded no duration; an event that recorded a
\* duration d, d = 0 ms included, is shown with round(d / 60000).
RecentDurationShown ==
    LastWasFullDashboard =>
        LET list == response.data.recentChanges
        IN  \A k \in 1..Len(list) :
                LET log == slotHistory[Len(slotHistory) + 1 - k]
                IN  /\ list[k].duration = NULL <=> log.duration = NULL
                    /\ log.duration # NULL =>
                           LET diff == list[k].duration * 60000 - log.duration
                           IN  -30000 < diff /\ diff <= 30000

\* C20: at every read the hourly pattern has one bucket for each of the
\* hours 0..23, with counters that are not negative, and occupations +
\* releases over all buckets is the number of log entries with timestamp
\* >= now - 24h.
HourlyPatternComplete ==
    last.op = "dashboard" =>
        /\ last.status = 200
        /\ LET pattern == response.data.hourlyPattern
           IN  /\ DOMAIN pattern = 0..23
               /\ \A hour \in DOMAIN pattern :
                      /\ pattern[hour].hour = hour
                      /\ pattern[hour].occupations >= 0
                      /\ pattern[hour].releases >= 0
               /\ SumOf([hour \in DOMAIN pattern |->
                            pattern[hour].occupations + pattern[hour].releases],
                        DOMAIN pattern)
                      = EntriesSince(response.timestamp, Last24HoursMs)

\* The last request was a read of the dashboard of part_000.
LastWasWIBDashboard == last.op = "dashboardWIB" /\ last.status = 200

\* The civil date of the instant shifted by exactly +7 hours.
WIBDate(t) == (t + 7 * 60 * 60 * 1000) \div (24 * 60 * 60 * 1000)

\* C21: the seven buckets of the daily pattern are the dates of (now + 7h)
\* - i days for i = 0..6, and a log entry with timestamp t in the last 7
\* days is counted in the bucket of the date of (t + 7h).
DailyBucketsAtWIBDate ==
    LastWasWIBDashboard =>
        LET now == response.timestamp
            pattern == response.data.dailyPattern
        IN  /\ DOMAIN pattern = {WIBDate(now) - i : i \in 0..6}
            /\ \A day \in DOMAIN pattern :
                  pattern[day].totalActivities =
                      Cardinality({i \in 1..Len(slotHistory) :
                                      /\ slotHistory[i].timestamp >= now - Last7DaysMs
                                      /\ WIBDate(slotHistory[i].timestamp) = day})

\* The position at which the hour of a bucket was seeded, for a read at now.
SeedPosition(now, hour) == CHOOSE i \in 1..24 : SeedOrderWIB(now)[i] = hour

\* Bucket a is listed before bucket b: it has more activity, or the same
\* activity and was seeded earlier.
RanksBefore(now, pattern, a, b) ==
    \/ TotalActivity(pattern[a]) > TotalActivity(pattern[b])
    \/ /\ TotalActivity(pattern[a]) = TotalActivity(pattern[b])
       /\ SeedPosition(now, a) < SeedPosition(now, b)

\* C22: the peak hours are the K hourly buckets with the largest total
\* activity, in descending activity; among buckets with equal activity the
\* ones seeded earlier come first.
PeakHoursBySeedOrder ==
    LastWasWIBDashboard =>
        LET now == response.timestamp
            pattern == response.data.hourlyPattern
            peaks == response.data.peakHours
            listed == {peaks[i].hour : i \in 1..Len(peaks)}
        IN  /\ Len(peaks) = PeakHoursCount
            /\ \A i \in 1..Len(peaks) :
                  peaks[i].totalActivity = TotalActivity(pattern[peaks[i].hour])
            /\ \A i, j \in 1..Len(peaks) :
                  i < j => RanksBefore(now, pattern, peaks[i].hour, peaks[j].hour)
            /\ \A hour \in DOMAIN pattern \ listed :
                  \A i \in 1..Len(peaks) : RanksBefore(now, pattern, peaks[i].hour, hour)


\* The operations that aggregate over the store and the log; a status read
\* aggregates when it names no device (the list of all devices).
LastWasAggregationRead ==
    \/ last.op \in {"dashboard", "analytics", "health"}
    \/ last.op = "status" /\ last.deviceId = NoDeviceId

\* C23: every aggregation read (dashboard, hourly analytics, health, status
\* list) is answered with success and never with an error, in every
\* reachable state; with no device and an empty log the counts it returns
\* are zero.
AggregationReadsSucceed ==
    LastWasAggregationRead =>
        /\ last.status = 200
        /\ (parkingData = << >> /\ slotHistory = <<>>) =>
               CASE last.op = "dashboard" ->
                        /\ response.data.systemStats.totalDevices = 0
                        /\ response.data.systemStats.totalSlots = 0
                        /\ response.data.systemStats.overallOccupancyRate = 0
                        /\ response.data.recentChanges = <<>>
                 [] last.op = "analytics" ->
                        /\ response.data.summary.totalActivities = 0
                        /\ \A k \in DOMAIN response.data.hourlyBreakdown :
                               response.data.hourlyBreakdown[k].totalActivity = 0
                 [] last.op = "health" ->
                        /\ response.connectedDevices = 0
                        /\ response.totalHistoryLogs = 0
                 [] OTHER -> response.totalDevices = 0

\* The read operations.
ReadOps == {"status", "health", "dashboard", "analytics"}

\* The step serves the same request as the one served last: the same
\* operation on the same device and, for the analytics, over as many hours.
RepeatsLastRequest ==
    /\ last.op \in ReadOps
    /\ last'.op = last.op
    /\ last'.deviceId = last.deviceId
    /\ (last.op = "analytics" /\ last.status = 200 /\ last'.status = 200) =>
           response'.data.summary.totalHours = response.data.summary.totalHours

\* The last answer is known to be computed at the present clock value: it
\* carries that time, or it is the answer of a status read, which does not
\* depend on the time.
AnsweredAtPresent ==
    \/ last.op = "status"
    \/ last.op \in ReadOps /\ last.status = 200 /\ response.timestamp = clock

\* C24: a read (status read, health, dashboard, hourly analytics) leaves the
\* store and the log as they were, and a read that repeats the last read
\* while the clock has not moved since gets the same answer.
ReadsArePure ==
    [][/\ last'.op \in ReadOps => UNCHANGED <<parkingData, slotHistory>>
       /\ (RepeatsLastRequest /\ AnsweredAtPresent /\ clock' = clock) =>
              (last' = last /\ response' = response)]_vars

\* A health read has answered while the store holds a device and the log
\* holds a change.
ReadOverNonEmptyLog ==
    /\ last.op = "health"
    /\ response.totalHistoryLogs > 0
    /\ response.connectedDevices > 0
    /\ Len(slotHistory) = response.totalHistoryLogs

\* The snapshot of the event's device holds the state the event records:
\* a slot with the event's id and its new state.
SnapshotHolds(store, event) ==
    /\ event.deviceId \in DOMAIN store
    /\ \E k \in DOMAIN store[event.deviceId].slots :
           /\ store[event.deviceId].slots[k].id = event.slotId
           /\ store[event.deviceId].slots[k].occupied = event.newState

\* C25: a report is processed in one step: in every state a read can
\* observe the log is no longer than its cap, the step that appends a
\* report's events also writes the snapshot of that report (no state shows
\* an appended event next to the snapshot of before the report), and the
\* log and the store change in no other step than that of one report.
ReportIsAtomic ==
    /\ [](Len(slotHistory) <= HistoryCap)
    /\ [][/\ \A i \in (Len(detected) + 1)..Len(detected') :
                 SnapshotHolds(parkingData', detected'[i])
          /\ (slotHistory' # slotHistory \/ parkingData' # parkingData) =>
                 /\ last'.op = "report"
                 /\ last'.status = 200
                 /\ parkingData'[last'.deviceId] = Snapshot(last'.slots)
                 /\ \A d \in DOMAIN parkingData \ {last'.deviceId} :
                        parkingData'[d] = parkingData[d]]_vars

\* Both devices have reported changes, the oldest change has been evicted
\* from the full log, and a dashboard has been read since.
ReadBetweenReports ==
    /\ last.op = "dashboard"
    /\ Len(slotHistory) = HistoryCap
    /\ Len(detected) > HistoryCap
    /\ \E i, j \in 1..Len(detected) : detected[i].deviceId # detected[j].deviceId

\* C26: in the programs with login, a dashboard request without a bearer
\* token is answered 401 and gets no data, and data is returned only to a
\* request whose token a successful login has issued and that has not
\* expired when the request is served.
TokenGatesDashboard ==
    last.op = "dashboardAuth" =>
        /\ presented.token = NoToken =>
               /\ last.status = 401
               /\ "data" \notin DOMAIN response
        /\ "data" \in DOMAIN response =>
               /\ last.status = 200
               /\ presented.token \in issued
               /\ response.timestamp \div 1000 < presented.token.exp

\* A dashboard request without a token has been refused while a device has
\* reported and a token that login issued is still valid.
NoTokenRefused ==
    /\ last.op = "dashboardAuth"
    /\ presented.token = NoToken
    /\ last.status = 401
    /\ parkingData # <<>>
    /\ \E token \in issued : Verifies(token, clock)

\* C27: in each program with login, a dashboard request whose token is
\* refused (it is not the server's, or it has expired) is answered 401,
\* the status of a request without a token.
RefusedTokenAnswered401 ==
    (/\ last.op = "dashboardAuth"
     /\ presented.token # NoToken
     /\ "data" \notin DOMAIN response) => last.status = 401

\* The last request was a login with both fields whose identifier is not
\* stored or whose password is not the stored user's.
LoginWithBadCredentials ==
    /\ last.op = "login"
    /\ presented.identifier # ""
    /\ presented.password # ""
    /\ \/ presented.identifier \notin DOMAIN adminUsers
       \/ ~Compare(presented.password, adminUsers[presented.identifier].password)

\* C28: a login with a wrong password and a login with an identifier that
\* is not registered get the same answer, 401 with the error "Invalid
\* credentials" and nothing else, and no token is issued for them.
BadLoginsAnsweredAlike ==
    /\ [](LoginWithBadCredentials =>
              /\ last.status = 401
              /\ response = [success |-> FALSE, error |-> "Invalid credentials"])
    /\ [][LoginWithBadCredentials' => issued' = issued]_vars

\* A login with the password of the default admin under an identifier that
\* is not registered has been refused.
UnknownIdentifierRefused ==
    /\ last.op = "login"
    /\ last.status = 401
    /\ presented.identifier = "ops"
    /\ presented.identifier \notin DOMAIN adminUsers
    /\ presented.password = DefaultAdminPassword(variant)

\* C29: in each program with login, a registration that is refused leaves
\* the users as they were, and no registration stores a user whose
\* password has fewer than 6 characters: every stored password has at
\* least 6.
RegistrationKeepsPolicy ==
    /\ [](\A id \in DOMAIN adminUsers :
              Len(adminUsers[id].password.bcrypt) >= MinPasswordLength)
    /\ [][(last'.op = "register" /\ last'.status = 400) => adminUsers' = adminUsers]_vars

\* C30: the hourly analytics are returned to authenticated requests only:
\* when a breakdown has been returned, a login has issued a token that was
\* valid when the request was served.
AnalyticsRequireToken ==
    (last.op = "analytics" /\ "data" \in DOMAIN response) =>
        \E token \in issued : Verifies(token, response.timestamp)

\* C31: quietestHour of the hourly-analytics summary is a bucket of the
\* returned breakdown, and no bucket of the breakdown has less activity.
QuietestHourIsMinimum ==
    last.op = "analytics" =>
        LET breakdown == response.data.hourlyBreakdown
            quietest == response.data.summary.quietestHour
        IN  /\ \E key \in DOMAIN breakdown : breakdown[key] = quietest
            /\ \A key \in DOMAIN breakdown :
                   quietest.totalActivity <= breakdown[key].totalActivity

\* C32: the breakdown of the hourly analytics for days = N has N * 24
\* buckets, and their totalActivity adds up to the number of log entries
\* with timestamp >= now - N * 24 h (as does the summary's
\* totalActivities): every entry of the window is counted in a bucket.
BreakdownCoversWindow ==
    last.op = "analytics" =>
        LET breakdown == response.data.hourlyBreakdown
            hoursBack == response.data.summary.totalHours
            inWindow == EntriesSince(response.timestamp, hoursBack * HourMs)
        IN  /\ Cardinality(DOMAIN breakdown) = hoursBack
            /\ SumOf([key \in DOMAIN breakdown |-> breakdown[key].totalActivity],
                     DOMAIN breakdown) = inWindow
            /\ response.data.summary.totalActivities = inWindow

\* The events of (deviceId, slotId) in the sequence of every log pushed.
LoggedEventsOf(deviceId, slotId) ==
    {i \in 1..Len(detected) : /\ detected[i].deviceId = deviceId
                              /\ detected[i].slotId = slotId}

\* The occupation event a release event was paired with: the most recent
\* event of its slot with newState = TRUE that was logged before it.
PairedWith(j) ==
    FindLastOccupied(SubSeq(detected, 1, j - 1), detected[j].deviceId, detected[j].slotId)

\* C33: every recorded duration measures one uninterrupted occupied period:
\* no other event of the same (deviceId, slotId) lies between a release
\* event with a duration and the occupation event it was paired with.
DurationsAreUninterrupted ==
    \A j \in 1..Len(detected) :
        detected[j].duration # NULL =>
            /\ PairedWith(j) # 0
            /\ detected[j].duration = detected[j].timestamp - detected[PairedWith(j)].timestamp
            /\ \A k \in LoggedEventsOf(detected[j].deviceId, detected[j].slotId) :
                   ~(PairedWith(j) < k /\ k < j)

\* C34: the log agrees with the live state: for every slot of a stored
\* snapshot that has an event in the history log, the newState of its most
\* recent event equals the slot's stored occupied value.
LogAgreesWithSnapshot ==
    \A deviceId \in DOMAIN parkingData :
        \A s \in 1..Len(parkingData[deviceId].slots) :
            LET slot == parkingData[deviceId].slots[s]
                events == PairIndexes(slotHistory, deviceId, slot.id)
            IN  events # {} =>
                    \A i \in events :
                        (\A j \in events : j <= i) => slotHistory[i].newState = slot.occupied

\* The explicit (non-zero) ids of an object-form report are pairwise distinct.
ExplicitIdsDistinct(items) ==
    \A i, j \in 1..Len(items) :
        (i # j /\ items[i].id # 0) => items[i].id # items[j].id

\* C35: slot ids are unique within the snapshot stored by an accepted
\* object-form report whose explicit ids are distinct, also when other slots
\* of the report omit the id (or carry id 0) and get their 1-based position.
StoredSlotIdsUnique ==
    (/\ last.op = "report"
     /\ last.status = 200
     /\ last.slots.form = "objects"
     /\ ExplicitIdsDistinct(last.slots.items))
    => LET stored == parkingData[last.deviceId].slots
       IN  \A i, j \in 1..Len(stored) : i # j => stored[i].id # stored[j].id

\* The most recent occupation of (deviceId, slotId) among the first n
\* transitions detected, 0 when there is none.
LastOccupationOf(deviceId, slotId, n) ==
    LET hits == {i \in 1..n : /\ detected'[i].deviceId = deviceId
                              /\ detected'[i].slotId = slotId
                              /\ detected'[i].newState = TRUE}
    IN  IF hits = {} THEN 0 ELSE CHOOSE i \in hits : \A j \in hits : j <= i

\* C36: an accepted report for device A changes only A's entry of the store
\* and appends only events of A; the snapshot of every other device is
\* unchanged, and a duration it records is measured from an occupation of A,
\* never from an event of another device with the same slot id.
ReportTouchesOneDevice ==
    [][AcceptedStep
       => LET A == last'.deviceId
              n == Len(detected)
          IN  /\ DOMAIN parkingData' = DOMAIN parkingData \cup {A}
              /\ \A d \in DOMAIN parkingData \ {A} : parkingData'[d] = parkingData[d]
              /\ SubSeq(detected', 1, n) = detected
              /\ \A k \in (n + 1)..Len(detected') :
                    /\ detected'[k].deviceId = A
                    /\ detected'[k].duration # NULL =>
                          LET i == LastOccupationOf(A, detected'[k].slotId, k - 1)
                          IN  /\ i # 0
                              /\ detected'[k].duration = detected'[k].timestamp - detected'[i].timestamp]_vars

\* C36 witness: the last event of the log is a release of one device with a
\* duration, logged while the log held a later occupation of the slot with
\* the same id on another device, and the snapshot of that device is intact.
ReleaseBesideOtherDevice ==
    /\ last.op = "report" /\ last.status = 200
    /\ Len(detected) >= 3
    /\ LET n == Len(detected)
           release == detected[n]
           other == detected[n - 1]
       IN  /\ release.deviceId = last.deviceId
           /\ release.duration # NULL
           /\ other.deviceId # release.deviceId
           /\ other.slotId = release.slotId
           /\ other.newState = TRUE
           /\ other.timestamp # release.timestamp - release.duration
           /\ other.deviceId \in DOMAIN parkingData
           /\ parkingData[other.deviceId].slots # <<>>

\* C37: a report is all-or-nothing: when it is answered with an error (400
\* without a deviceId, 500 for a slot list with a null element) no event has
\* been appended and no snapshot written; when it is accepted its snapshot
\* is written and every change against the prior snapshot is appended.
ReportIsAllOrNothing ==
    [][ReportStep
       => IF last'.status # 200
          THEN /\ last'.status \in {400, 500}
               /\ last'.status = 500 <=> (last'.deviceId # NoDeviceId /\ ReportThrows(last'.slots))
               /\ UNCHANGED <<parkingData, slotHistory, detected>>
          ELSE LET d == last'.deviceId
                   expected == IF d \in DOMAIN parkingData
                               THEN ExpectedTransitions(parkingData[d].slots,
                                                        ProcessedSlots(last'.slots), 1)
                               ELSE <<>>
                   n == Len(detected)
               IN  /\ parkingData' = MapSet(parkingData, d, Snapshot(last'.slots))
                   /\ Len(detected') = n + Len(expected)
                   /\ SubSeq(detected', 1, n) = detected
                   /\ \A k \in 1..Len(expected) : Transition(detected'[n + k]) = expected[k]
                   /\ slotHistory' = LastN(slotHistory \o SubSeq(detected', n + 1, Len(detected')),
                                           HistoryCap)]_vars

\* C37 witness: a report whose second element is null has been answered 500
\* although its first slot differs from the stored one, with a log that
\* holds events and a stored snapshot.
NullElementRefused ==
    /\ last.op = "report" /\ last.status = 500
    /\ response = InternalServerError
    /\ slotHistory # <<>>
    /\ FirstNull(last.slots.items) = 2
    /\ LET stored == parkingData[last.deviceId].slots
           first == ObjSlotData(last.slots.items[1], 1)
       IN  \E i \in 1..Len(stored) :
               stored[i].id = first.id /\ stored[i].occupied # first.occupied

\* The entries of the history log inside the time window that starts at T.
InWindow(T) == {i \in 1..Len(slotHistory) : slotHistory[i].timestamp >= T}

\* C38: while the clock never goes back, the timestamps of the history log
\* are non-decreasing in log order, every recorded duration is >= 0, and the
\* entries of a time window (timestamp >= T) form a suffix of the log.
LogIsTimeOrdered ==
    /\ \A i, j \in 1..Len(slotHistory) :
           i < j => slotHistory[i].timestamp <= slotHistory[j].timestamp
    /\ \A i \in 1..Len(slotHistory) :
           slotHistory[i].duration # NULL => slotHistory[i].duration >= 0
    /\ \A T \in Instants :
           \A i \in InWindow(T) : \A j \in i..Len(slotHistory) : j \in InWindow(T)

\* C38 witness: the log holds an older entry and a later release with a
\* positive duration, and a time window holds the later entry only.
WindowIsProperSuffix ==
    /\ Len(slotHistory) = 2
    /\ slotHistory[1].timestamp < slotHistory[2].timestamp
    /\ slotHistory[2].duration # NULL /\ slotHistory[2].duration > 0
    /\ \E T \in Instants : InWindow(T) = {2}

\* A step in which a suspended registration finishes with its 200.
RegistrationSucceeds ==
    /\ pending' # pending
    /\ last'.op = "register" /\ last'.status = 200

\* C39: registration is atomic per identifier: of the registrations of one
\* new identifier that overlap at most one succeeds, so a registration that
\* succeeds never finds a record of its identifier stored by another one,
\* and the stored record stays the one of the request that succeeded.
RegistrationIsAtomic ==
    [][RegistrationSucceeds => presented'.identifier \notin DOMAIN adminUsers]_vars
====
